---------------------------- MODULE Spec2Model ----------------------------
(***************************************************************************)
(* The client / entity-list synchronisation core of pods: the three        *)
(* mirrors of one Client (ImageList, ContainerList, PodList), their        *)
(* refresh and handle_event operations, and the cross-reference wiring the *)
(* Client installs on the mirrors' signals.                                *)
(*                                                                         *)
(* A mirror is an IndexMap<String, Entity>; it is modelled as a sequence   *)
(* of entity records in insertion order.  An entity object is identified   *)
(* by its remote id and an object number (gen) that no other object of    *)
(* that id carries while anything still refers to it, so that "the same    *)
(* object" can be told from "a new object with the same id".               *)
(***************************************************************************)
EXTENDS Naturals, Sequences, FiniteSets

\* ------------------------------------------------------------------ bounds
\* Longest listing the gateway returns.
MaxRespLen == 2
\* Most refresh requests of one mirror in flight at once.
MaxInflight == 2
\* Most calls of check_service on one Client.
MaxChecks == 1
\* Most calls of try_connect that get as far as the ping.
MaxConnects == 2
\* Most sync_to_disk writes in flight at once.
MaxWrites == 1

\* ------------------------------------------------------------- input sets
None == "none"

Kinds == {"image", "container", "pod"}

ImageIds == {"i1", "i2"}
ContainerIds == {"c1", "c2"}
PodIds == {"p1", "p2"}

Ids(m) ==
    CASE m = "image" -> ImageIds
      [] m = "container" -> ContainerIds
      [] m = "pod" -> PodIds

\* The image and the pod a container was created from: fixed by the runtime
\* when the container is created, reported in every summary of it.
image_id(c) == "i1"

pod_id(c) == IF c = "c1" THEN "p1" ELSE None

\* A runtime-reported attribute (status, size, ...) of a summary.
Attrs == {0, 1}

\* The summaries a listing can hold.  Only container summaries carry
\* is_infra; the attribute of an infra summary is never read.  Only image
\* summaries carry repo tags; these are summaries of untagged images.
Summaries(m) ==
    IF m = "container"
    THEN [id : ContainerIds, attr : Attrs, is_infra : {FALSE},
          repo_tags : {{}}]
         \cup [id : ContainerIds, attr : {0}, is_infra : {TRUE},
               repo_tags : {{}}]
    ELSE [id : Ids(m), attr : Attrs, is_infra : {FALSE}, repo_tags : {{}}]

SeqsUpTo(S, n) == UNION {[1..k -> S] : k \in 0..n}

Responses(m) == SeqsUpTo(Summaries(m), MaxRespLen)

\* The listings a request with id filter f can get: the gateway's Id filter
\* lets only summaries of that id through.
ResponsesTo(m, f) ==
    IF f = None
    THEN Responses(m)
    ELSE SeqsUpTo({s \in Summaries(m) : s.id = f}, MaxRespLen)

\* The id filter of a list request: None for an unfiltered listing.
Filters(m) == IF m = "image" THEN {None} ELSE {None} \cup Ids(m)

\* --------------------------------------------------------------- state
VARIABLES
    list,         \* list[m]: the mirror's IndexMap, in insertion order
    listing,      \* listing[m]: the mirror's listing flag
    initialized,  \* initialized[m]: the mirror's initialized cell is set
    pending,      \* pending[m][f]: list requests with filter f in flight
    signals,      \* the signals and callbacks the last operation emitted
    last,         \* the last operation: what was called, on which mirror
    focus,        \* the mirrors this run's environment drives
    svc,          \* the Client's service: pings, event loops, timers
    cm            \* the ConnectionManager: connections, active client, store

vars == <<list, listing, initialized, pending, signals, last, focus, svc, cm>>

\* ------------------------------------------------------------ entities
\* A reference to an entity object; NoRef is the unset reference.
Ref(e) == [id |-> e.id, gen |-> e.gen]

NoRef == [id |-> None, gen |-> 0]

\* Image::new / Container::new / Pod::new from a summary: object number g
\* of its id, not yet linked; tags is the repo tag list of an image.
NewEntity(id, g, attr, tags) ==
    [id |-> id, gen |-> g, attr |-> attr, tags |-> tags,
     image |-> NoRef, pod |-> NoRef, containers |-> {}]

KeysOf(s) == {s[i].id : i \in DOMAIN s}

\* IndexMap::get_index_of: 0 when the key is absent.
IndexOf(s, id) ==
    IF \E i \in DOMAIN s : s[i].id = id
    THEN CHOOSE i \in DOMAIN s : s[i].id = id
    ELSE 0

\* IndexMap::shift_remove: the later entries move up by one.
ShiftRemove(s, i) == SubSeq(s, 1, i - 1) \o SubSeq(s, i + 1, Len(s))

\* The entry at index i of the map replaced by e, the others in place.
SetAt(s, i, e) == SubSeq(s, 1, i - 1) \o <<e>> \o SubSeq(s, i + 1, Len(s))

\* The mirror's sequence with field `field` of every entity whose id is in
\* ids set to ref.
RECURSIVE SetRef(_, _, _, _)
SetRef(s, ids, field, ref) ==
    IF s = <<>>
    THEN <<>>
    ELSE <<IF Head(s).id \in ids
           THEN [Head(s) EXCEPT ![field] = ref]
           ELSE Head(s)>> \o SetRef(Tail(s), ids, field, ref)

\* The mirror's sequence with the set cs added to (add = TRUE) or taken
\* from the containers of the entity at index i.
SetContainers(s, i, cs, add) ==
    SetAt(s, i, [s[i] EXCEPT !.containers = IF add THEN @ \cup cs ELSE @ \ cs])

RespIds(R) == {R[i].id : i \in DOMAIN R}

\* ----------------------------------------------------------------- signals
\* One emitted signal or invoked callback.  pos is the position argument of
\* items_changed, 0 for the other signals.
Sig(name, m, id, pos) == [sig |-> name, m |-> m, id |-> id, pos |-> pos]

\* A world: the mirrors an operation reads and writes, the mirrors as the
\* operation found them (pre), and the signals it has emitted so far.
World(l, p, s) == [list |-> l, pre |-> p, sigs |-> s]

Emit(W, s) == [W EXCEPT !.sigs = Append(@, s)]

\* get_image / get_container / get_pod finds an entity under id.
Has(l, m, id) == IndexOf(l[m], id) # 0

\* The entity get_image / get_container / get_pod returns when Has.
Get(l, m, id) == l[m][IndexOf(l[m], id)]

\* ---------------------------------------------- cross-reference wiring
\* Container::set_image(Some(image)) and Image::add_container(container)
\* for every container of `cs`.
LinkImage(l, iid, cs) ==
    LET img == Get(l, "image", iid)
    IN [l EXCEPT
          !["container"] =
              SetRef(l["container"], cs, "image", Ref(img)),
          !["image"] =
              SetContainers(l["image"], IndexOf(l["image"], iid), cs, TRUE)]

\* Container::set_pod(Some(pod)) and pod.container_list().add_container(..)
\* for every container of `cs`.
LinkPod(l, pid, cs) ==
    LET pod == Get(l, "pod", pid)
    IN [l EXCEPT
          !["container"] =
              SetRef(l["container"], cs, "pod", Ref(pod)),
          !["pod"] =
              SetContainers(l["pod"], IndexOf(l["pod"], pid), cs, TRUE)]

\* An image-added handler that links nothing.
on_image_added_unlinked(l, iid) == l

\* The handler of the image list's image-added signal.
on_image_added(l, iid) ==
    LinkImage(l, iid, {c \in KeysOf(l["container"]) : image_id(c) = iid})

\* A pod-added handler that links nothing.
on_pod_added_unlinked(l, pid) == l

\* The handler of the pod list's pod-added signal.
on_pod_added(l, pid) ==
    LinkPod(l, pid, {c \in KeysOf(l["container"]) : pod_id(c) = pid})

\* The handler of the container list's container-added signal.
on_container_added(l, cid) ==
    LET l1 == IF Has(l, "image", image_id(cid))
              THEN LinkImage(l, image_id(cid), {cid})
              ELSE l
    IN IF pod_id(cid) # None /\ Has(l1, "pod", pod_id(cid))
       THEN LinkPod(l1, pod_id(cid), {cid})
       ELSE l1

\* A container-removed handler that unlinks nothing.
on_container_removed_linked(l, c) == l

\* The handler of the container list's container-removed signal; c is the
\* removed container object.  container.pod() is a weak reference: it leads
\* to a pod of the mirror only while that pod object is still held.
on_container_removed(l, c) ==
    LET l1 == IF Has(l, "image", image_id(c.id))
              THEN [l EXCEPT !["image"] =
                      SetContainers(@, IndexOf(l["image"], image_id(c.id)),
                                    {c.id}, FALSE)]
              ELSE l
    IN IF c.pod # NoRef /\ Has(l1, "pod", c.pod.id)
          /\ Ref(Get(l1, "pod", c.pod.id)) = c.pod
       THEN [l1 EXCEPT !["pod"] =
               SetContainers(@, IndexOf(l1["pod"], c.pod.id), {c.id}, FALSE)]
       ELSE l1

AddedSignal(m) ==
    CASE m = "image" -> "image-added"
      [] m = "container" -> "container-added"
      [] m = "pod" -> "pod-added"

\* What the Client's handler of the mirror's added signal does.
on_added(l, m, id) ==
    CASE m = "image" -> on_image_added(l, id)
      [] m = "container" -> on_container_added(l, id)
      [] m = "pod" -> on_pod_added(l, id)

\* .filter(|list_container| !list_container.is_infra.unwrap_or_default())
RECURSIVE without_infra(_)
without_infra(R) ==
    IF R = <<>>
    THEN <<>>
    ELSE IF Head(R).is_infra
         THEN without_infra(Tail(R))
         ELSE <<Head(R)>> \o without_infra(Tail(R))

\* A removal that announces the eviction to the collection's observers
\* before the entity is told it was deleted.
remove_entity_removed_first(W, m, id) ==
    LET i == IndexOf(W.list[m], id)
    IN IF i = 0
       THEN W
       ELSE LET e  == W.list[m][i]
                W1 == [W EXCEPT !.list[m] = ShiftRemove(@, i)]
                W2 == IF m = "container"
                      THEN [Emit(W1, Sig("container-removed", m, id, 0))
                              EXCEPT !.list = on_container_removed(W1.list, e)]
                      ELSE W1
                W3 == Emit(W2, Sig("items-removed", m, id, i - 1))
            IN Emit(W3, Sig("deleted", m, id, 0))

\* ------------------------------------------------- mirror operations
\* The world in which remove_container / remove_image / remove_pod emit
\* the entity's deleted signal: list.shift_remove_full(id) has taken the
\* entity out of the map, whose mutable borrow is still held.
deleted_at(W, m, id) ==
    [W EXCEPT !.list[m] = ShiftRemove(@, IndexOf(W.list[m], id))]

\* remove_container / remove_image / remove_pod: shift_remove_full, the
\* entity's deleted signal, (containers only) container-removed and its
\* handler, then items_changed(idx, 1, 0).  items_changed positions are
\* counted from 0.
remove_entity(W, m, id) ==
    LET i == IndexOf(W.list[m], id)
    IN IF i = 0
       THEN W
       ELSE LET e  == W.list[m][i]
                W1 == deleted_at(W, m, id)
                W2 == Emit(W1, Sig("deleted", m, id, 0))
                W3 == IF m = "container"
                      THEN [Emit(W2, Sig("container-removed", m, id, 0))
                              EXCEPT !.list = on_container_removed(W2.list, e)]
                      ELSE W2
            IN Emit(W3, Sig("items-removed", m, id, i - 1))

RECURSIVE remove_all(_, _, _)
remove_all(W, m, ids) ==
    IF ids = <<>>
    THEN W
    ELSE remove_all(remove_entity(W, m, Head(ids)), m, Tail(ids))

\* A to_remove computed against the listing after the infra containers
\* were filtered out of it.
RECURSIVE to_remove_after_filter(_, _)
to_remove_after_filter(s, R) ==
    IF s = <<>>
    THEN <<>>
    ELSE IF Head(s).id \in RespIds(without_infra(R))
         THEN to_remove_after_filter(Tail(s), R)
         ELSE <<Head(s).id>> \o to_remove_after_filter(Tail(s), R)

\* The keys of the mirror, in its order, that no summary of the response
\* carries (infra summaries count as carrying their id).
RECURSIVE to_remove(_, _)
to_remove(s, R) ==
    IF s = <<>>
    THEN <<>>
    ELSE IF Head(s).id \in RespIds(R)
         THEN to_remove(Tail(s), R)
         ELSE <<Head(s).id>> \o to_remove(Tail(s), R)

\* The object numbers of id that something still refers to: the objects
\* the mirror holds or held when the operation began, and the image and pod
\* objects the containers' references name.
GensInUse(W, m, id) ==
    {W.list[m][i].gen : i \in {k \in DOMAIN W.list[m] : W.list[m][k].id = id}}
    \cup {W.pre[m][i].gen : i \in {k \in DOMAIN W.pre[m] : W.pre[m][k].id = id}}
    \cup {W.list["container"][i].image.gen :
            i \in {k \in DOMAIN W.list["container"] :
                      m = "image" /\ W.list["container"][k].image.id = id}}
    \cup {W.list["container"][i].pod.gen :
            i \in {k \in DOMAIN W.list["container"] :
                      m = "pod" /\ W.list["container"][k].pod.id = id}}

\* The number a newly constructed object of id gets.
FreshGen(W, m, id) ==
    CHOOSE n \in 1..(Cardinality(GensInUse(W, m, id)) + 1) :
        /\ n \notin GensInUse(W, m, id)
        /\ \A k \in 1..(n - 1) : k \in GensInUse(W, m, id)

\* Entity::update(summary): the attributes of the held object are
\* overwritten in place.
update_entity(e, s) == [e EXCEPT !.attr = s.attr, !.tags = s.repo_tags]

\* An upsert that takes every summary for a new entity: it never looks the
\* id up.
upsert_always_vacant(W, m, s) ==
    LET g     == FreshGen(W, m, s.id)
        index == Len(W.list[m])
        W1    == [W EXCEPT !.list[m] = Append(@, NewEntity(s.id, g, s.attr, s.repo_tags))]
        W2    == Emit(W1, Sig("items-added", m, s.id, index))
    IN [Emit(W2, Sig(AddedSignal(m), m, s.id, 0))
          EXCEPT !.list = on_added(W2.list, m, s.id)]

\* An upsert that re-inserts an entity it already holds: the updated
\* object moves to the end of the map.
upsert_reinsert(W, m, s) ==
    LET i == IndexOf(W.list[m], s.id)
    IN IF i = 0
       THEN upsert_always_vacant(W, m, s)
       ELSE [Emit(W, Sig("update", m, s.id, 0))
               EXCEPT !.list[m] =
                   Append(ShiftRemove(@, i), update_entity(@[i], s))]

\* One step of the for_each over the response: list.entry(id) is Vacant
\* (a new object is appended, items_changed(len, 0, 1) and the added
\* signal fire) or Occupied (update is called on the held object).
upsert(W, m, s) ==
    LET i == IndexOf(W.list[m], s.id)
    IN IF i = 0
       THEN LET g     == FreshGen(W, m, s.id)
                index == Len(W.list[m])
                W1    == [W EXCEPT !.list[m] = Append(@, NewEntity(s.id, g, s.attr, s.repo_tags))]
                W2    == Emit(W1, Sig("items-added", m, s.id, index))
            IN [Emit(W2, Sig(AddedSignal(m), m, s.id, 0))
                  EXCEPT !.list = on_added(W2.list, m, s.id)]
       ELSE [Emit(W, Sig("update", m, s.id, 0))
               EXCEPT !.list[m] = SetAt(@, i, update_entity(@[i], s))]

RECURSIVE upsert_all(_, _, _)
upsert_all(W, m, R) ==
    IF R = <<>>
    THEN W
    ELSE upsert_all(upsert(W, m, Head(R)), m, Tail(R))

\* A completion that clears the mirror and rebuilds it from the listing.
refresh_ok_rebuild(W, m, f, R) ==
    LET W1 == IF f = None
              THEN remove_all(W, m, to_remove(W.list[m], <<>>))
              ELSE W
    IN upsert_all(W1, m, IF m = "container" THEN without_infra(R) ELSE R)

\* A completion that applies every summary of the listing, infra or not.
refresh_ok_unfiltered(W, m, f, R) ==
    LET W1 == IF f = None
              THEN remove_all(W, m, to_remove(W.list[m], R))
              ELSE W
    IN upsert_all(W1, m, R)

\* A completion that merges the listing into the mirror and removes
\* nothing.
refresh_ok_merge(W, m, f, R) ==
    upsert_all(W, m, IF m = "container" THEN without_infra(R) ELSE R)

\* A completion that removes what the listing lacks whatever the filter
\* of its request.
refresh_ok_reconciling(W, m, f, R) ==
    upsert_all(remove_all(W, m, to_remove(W.list[m], R)), m,
               IF m = "container" THEN without_infra(R) ELSE R)

\* The Ok branch of the completion of refresh: f is the id filter of the
\* request (None: unfiltered), R the listing the gateway returned.
refresh_ok(W, m, f, R) ==
    LET W1 == IF f = None
              THEN remove_all(W, m, to_remove(W.list[m], R))
              ELSE W
    IN upsert_all(W1, m, IF m = "container" THEN without_infra(R) ELSE R)

\* An Err branch that drops what the mirror holds before it reports.
refresh_err_clearing(W, m) ==
    Emit(remove_all(W, m, to_remove(W.list[m], <<>>)), Sig("err_op", m, None, 0))

\* The Err branch of the completion of refresh: err_op(RefreshError).
refresh_err(W, m) == Emit(W, Sig("err_op", m, None, 0))

\* ---------------------------------------------------------------- actions
Now == World(list, list, <<>>)

InFlight(m) ==
    LET f[S \in SUBSET Filters(m)] ==
            IF S = {} THEN 0
            ELSE LET x == CHOOSE x \in S : TRUE
                 IN pending[m][x] + f[S \ {x}]
    IN f[Filters(m)]

\* A record of the last operation: op on mirror m, with the id it was given
\* (the filter of a refresh, the actor of an event) and the action of an
\* event.
Op(op, m, id, action) == [op |-> op, m |-> m, id |-> id, action |-> action]

\* set_listing(true) and the list request of refresh.
IssueRefresh(m, f) ==
    /\ listing' = [listing EXCEPT ![m] = TRUE]
    /\ pending' = [pending EXCEPT ![m][f] = @ + 1]

\* refresh(None), as check_service and the periodic timer call it.
Refresh(m) ==
    /\ InFlight(m) < MaxInflight
    /\ IssueRefresh(m, None)
    /\ signals' = <<>>
    /\ last' = Op("refresh", m, None, "")
    /\ UNCHANGED <<list, initialized, focus>>

\* A completion that marks the mirror initialized only when the request
\* succeeded.
CompleteInitializedOnOk(m, f, W, op) ==
    /\ list' = W.list
    /\ signals' = W.sigs
    /\ pending' = [pending EXCEPT ![m][f] = @ - 1]
    /\ listing' = [listing EXCEPT ![m] = FALSE]
    /\ initialized' = IF op = "refresh_ok"
                      THEN [initialized EXCEPT ![m] = TRUE]
                      ELSE initialized
    /\ last' = Op(op, m, f, "")
    /\ UNCHANGED focus

\* A completion that leaves listing set when the request failed.
CompleteListingStuck(m, f, W, op) ==
    /\ list' = W.list
    /\ signals' = W.sigs
    /\ pending' = [pending EXCEPT ![m][f] = @ - 1]
    /\ listing' = IF op = "refresh_err" THEN listing
                  ELSE [listing EXCEPT ![m] = FALSE]
    /\ initialized' = [initialized EXCEPT ![m] = TRUE]
    /\ last' = Op(op, m, f, "")
    /\ UNCHANGED focus

\* The completion callback of refresh, then set_listing(false) and
\* set_as_initialized().
Complete(m, f, W, op) ==
    /\ list' = W.list
    /\ signals' = W.sigs
    /\ pending' = [pending EXCEPT ![m][f] = @ - 1]
    /\ listing' = [listing EXCEPT ![m] = FALSE]
    /\ initialized' = [initialized EXCEPT ![m] = TRUE]
    /\ last' = Op(op, m, f, "")
    /\ UNCHANGED focus

RefreshOk(m, f, R) ==
    /\ pending[m][f] > 0
    /\ Complete(m, f, refresh_ok(Now, m, f, R), "refresh_ok")

RefreshErr(m, f) ==
    /\ pending[m][f] > 0
    /\ Complete(m, f, refresh_err(Now, m), "refresh_err")

\* A "remove" arm that also falls through to the refresh of the other
\* actions.
EventRemoveAndRefresh(m, id) ==
    LET W == remove_entity(Now, m, id)
    IN /\ InFlight(m) < MaxInflight
       /\ IssueRefresh(m, None)
       /\ list' = W.list
       /\ signals' = W.sigs
       /\ last' = Op("event", m, id, "remove")
       /\ UNCHANGED <<initialized, focus>>

\* handle_event of a "remove" action.
EventRemove(m, id) ==
    LET W == remove_entity(Now, m, id)
    IN /\ list' = W.list
       /\ signals' = W.sigs
       /\ last' = Op("event", m, id, "remove")
       /\ UNCHANGED <<listing, initialized, pending, focus>>

\* Container::inspect: an inspect request for that one container; the
\* mirror that holds it is not touched.
inspect(W, id) == Emit(W, Sig("inspect", "container", id, 0))

\* A "health_status" arm that refreshes like the other actions.
EventHealthStatusRefreshes(id) ==
    LET f == IF Has(list, "container", id) THEN id ELSE None
    IN /\ InFlight("container") < MaxInflight
       /\ IssueRefresh("container", f)
       /\ signals' = <<>>
       /\ last' = Op("event", "container", id, "health_status")
       /\ UNCHANGED <<list, initialized, focus>>

\* ContainerList::handle_event of a "health_status" action: the held
\* container is re-inspected (Container::inspect, a request of its own).
EventHealthStatus(id) ==
    /\ signals' = IF Has(list, "container", id)
                  THEN inspect(Now, id).sigs
                  ELSE <<>>
    /\ last' = Op("event", "container", id, "health_status")
    /\ UNCHANGED <<list, listing, initialized, pending, focus>>

\* handle_event that refreshes without a filter whatever it holds.
EventRefreshUnscoped(m, id) ==
    /\ InFlight(m) < MaxInflight
    /\ IssueRefresh(m, None)
    /\ signals' = <<>>
    /\ last' = Op("event", m, id, "refresh")
    /\ UNCHANGED <<list, initialized, focus>>

\* handle_event of an action that refreshes: every other action of a
\* container or pod event (scoped to the id when it is held), "build" and
\* "pull" of an image event (always unfiltered).
EventRefresh(m, id) ==
    LET f == IF m # "image" /\ Has(list, m, id) THEN id ELSE None
    IN /\ InFlight(m) < MaxInflight
       /\ IssueRefresh(m, f)
       /\ signals' = <<>>
       /\ last' = Op("event", m, id, "refresh")
       /\ UNCHANGED <<list, initialized, focus>>

\* ContainerList::handle_event and PodList::handle_event of an action
\* value that names no action of the runtime: it falls into the `_` arm
\* like every action other than "remove" (and "health_status").
EventUnrecognized(m, id) ==
    LET f == IF Has(list, m, id) THEN id ELSE None
    IN /\ m # "image"
       /\ InFlight(m) < MaxInflight
       /\ IssueRefresh(m, f)
       /\ signals' = <<>>
       /\ last' = Op("event", m, id, "unknown")
       /\ UNCHANGED <<list, initialized, focus>>

\* ImageList::handle_event of an action it does not know: logged.
EventUnknown(id) ==
    /\ signals' = <<>>
    /\ last' = Op("event", "image", id, "unknown")
    /\ UNCHANGED <<list, listing, initialized, pending, focus>>

\* ------------------------------------------------- the tags of an image
\* The "name" attribute of a tag or untag event.
TagNames == {"x", "localhost/x"}

\* The repo tags a summary of an image can carry.
RepoTags == {{}, {"localhost/x"}}

\* RepoTagList::add and RepoTagList::remove on the tag set of an image.
add_tag(T, full) == T \cup {full}

remove_tag(T, full) == T \ {full}

\* ImageList::intermediates: the images held without a repo tag.
intermediates(l) ==
    Cardinality({i \in DOMAIN l["image"] : l["image"][i].tags = {}})

Notify(name) == Sig("notify", "image", name, 0)

\* ImageList::tag that adds the tag to every image held.
tag_all(W, id, full) ==
    LET s == W.list["image"]
        RECURSIVE Tagged(_)
        Tagged(k) ==
            IF k = 0
            THEN <<>>
            ELSE Append(Tagged(k - 1),
                        [s[k] EXCEPT !.tags = add_tag(@, full)])
    IN IF IndexOf(s, id) = 0
       THEN W
       ELSE Emit([W EXCEPT !.list["image"] = Tagged(Len(s))],
                 Notify("intermediates"))

\* ImageList::tag(id, tag): nothing for an image that is not held.
tag(W, id, full) ==
    LET i == IndexOf(W.list["image"], id)
    IN IF i = 0
       THEN W
       ELSE LET e  == W.list["image"][i]
                W1 == [W EXCEPT !.list["image"] =
                          SetAt(@, i, [e EXCEPT !.tags = add_tag(@, full)])]
            IN IF Cardinality(e.tags) = 0
               THEN Emit(W1, Notify("intermediates"))
               ELSE W1

\* ImageList::untag(id, tag): nothing for an image that is not held.
untag(W, id, full) ==
    LET i == IndexOf(W.list["image"], id)
    IN IF i = 0
       THEN W
       ELSE LET e  == W.list["image"][i]
                e1 == [e EXCEPT !.tags = remove_tag(@, full)]
                W1 == [W EXCEPT !.list["image"] = SetAt(@, i, e1)]
            IN IF Cardinality(e1.tags) = 0
               THEN Emit(W1, Notify("intermediates"))
               ELSE W1

\* The "tag" arm of ImageList::handle_event: the tag added is
\* "localhost/" followed by the event's attribute name.
handle_tag(W, id, name) == tag(W, id, "localhost/" \o name)

\* The "untag" arm of ImageList::handle_event: the tag removed is the
\* event's attribute name as it is.
handle_untag(W, id, name) == untag(W, id, name)

\* ImageList::handle_event of a "tag" action with attribute name.
EventTag(id, name) ==
    LET W == handle_tag(Now, id, name)
    IN /\ list' = W.list
       /\ signals' = W.sigs
       /\ last' = Op("event", "image", id, "tag")
       /\ UNCHANGED <<listing, initialized, pending, focus>>

\* An "untag" arm that also refreshes the mirror.
EventUntagRefreshes(id, name) ==
    LET W == untag(Now, id, name)
    IN /\ InFlight("image") < MaxInflight
       /\ IssueRefresh("image", None)
       /\ list' = W.list
       /\ signals' = W.sigs
       /\ last' = Op("event", "image", id, "untag")
       /\ UNCHANGED <<initialized, focus>>

\* ImageList::handle_event of an "untag" action with attribute name.
EventUntag(id, name) ==
    LET W == handle_untag(Now, id, name)
    IN /\ list' = W.list
       /\ signals' = W.sigs
       /\ last' = Op("event", "image", id, "untag")
       /\ UNCHANGED <<listing, initialized, pending, focus>>

\* The service of a Client on which check_service was not yet called: no
\* ping outstanding, no event loop, no timer.  loud[m] counts the requests
\* of mirror m in flight whose err_op is the caller's per-domain callback
\* (the others carry the timer's empty closure); by is the event loop
\* that ran the last step (0: none).
ServiceIdle ==
    [checks |-> 0, pings |-> 0, loops |-> <<>>, timers |-> 0,
     loud |-> [m \in Kinds |-> 0], by |-> 0, alive |-> TRUE]

\* Option::None of a connection uuid; the uuids are 1, 2, ...
NoUuid == 0

\* A ConnectionManager by Default (no connections, no client, nothing in
\* flight) over the persisted store `store` and the setting
\* "last-used-connection" `used`.  connections and store are sequences of
\* [uuid, name] in map order; client is the uuid of the connection the
\* active Client was made from; pings are the connections whose
\* try_connect ping is in flight; writes are the snapshots whose
\* sync_to_disk is in flight; next is the uuid the next new connection
\* gets.  disk says what is found where the store is kept: "no_dir" (no
\* config directory), "no_file" (the directory without connections.json),
\* "corrupt" (a file that does not parse) or "ok" (a file that holds
\* `store`).
ManagerOn(disk, store, used) ==
    [connections |-> <<>>, client |-> NoUuid, disk |-> disk, store |-> store,
     last_used |-> used, pings |-> {}, writes |-> <<>>,
     next |-> Len(store) + 1, setup |-> FALSE]

ManagerOver(store, used) == ManagerOn("ok", store, used)

ManagerDefault == ManagerOver(<<>>, NoUuid)

\* A Client as constructed: empty mirrors, nothing in flight.
Constructed ==
    /\ list = [m \in Kinds |-> <<>>]
    /\ listing = [m \in Kinds |-> FALSE]
    /\ initialized = [m \in Kinds |-> FALSE]
    /\ pending = [m \in Kinds |-> [f \in Filters(m) |-> 0]]
    /\ signals = <<>>
    /\ last = Op("new", None, None, "")
    /\ svc = ServiceIdle

\* The mirrors' operations leave the Client's service and the
\* ConnectionManager alone.
OnlyMirrors == UNCHANGED <<svc, cm>>

\* The environment drives one of the three mirrors.
Init ==
    /\ Constructed
    /\ cm = ManagerDefault
    /\ focus \in {{m} : m \in Kinds}

Next ==
    \/ \E m \in Kinds : m \in focus /\ Refresh(m) /\ OnlyMirrors
    \/ \E m \in Kinds : \E f \in Filters(m) : \E R \in ResponsesTo(m, f) :
          m \in focus /\ RefreshOk(m, f, R) /\ OnlyMirrors
    \/ \E m \in Kinds : \E f \in Filters(m) : m \in focus /\ RefreshErr(m, f) /\ OnlyMirrors
    \/ \E m \in Kinds : \E id \in Ids(m) : m \in focus /\ EventRemove(m, id) /\ OnlyMirrors
    \/ \E m \in Kinds : \E id \in Ids(m) : m \in focus /\ EventRefresh(m, id) /\ OnlyMirrors
    \/ \E id \in ContainerIds : "container" \in focus /\ EventHealthStatus(id) /\ OnlyMirrors
    \/ \E id \in ImageIds : "image" \in focus /\ EventUnknown(id) /\ OnlyMirrors
    \/ \E m \in Kinds : \E id \in Ids(m) :
          m \in focus /\ EventUnrecognized(m, id) /\ OnlyMirrors

Spec == Init /\ [][Next]_vars

\* The same mirrors when a refresh is only requested while none is in
\* flight: every listing is applied to the mirror its request saw.
NextSerial ==
    \/ \E m \in Kinds : m \in focus /\ InFlight(m) = 0 /\ Refresh(m) /\ OnlyMirrors
    \/ \E m \in Kinds : \E f \in Filters(m) : \E R \in ResponsesTo(m, f) :
          m \in focus /\ RefreshOk(m, f, R) /\ OnlyMirrors
    \/ \E m \in Kinds : \E f \in Filters(m) : m \in focus /\ RefreshErr(m, f) /\ OnlyMirrors
    \/ \E m \in Kinds : \E id \in Ids(m) : m \in focus /\ EventRemove(m, id) /\ OnlyMirrors
    \/ \E m \in Kinds : \E id \in Ids(m) :
          m \in focus /\ InFlight(m) = 0 /\ EventRefresh(m, id) /\ OnlyMirrors

SpecSerial == Init /\ [][NextSerial]_vars

\* The listings the gateway returns while the three mirrors are driven
\* together: every id at most once, no infra containers, attributes as
\* first seen.
ClientResponses(m) ==
    {R \in Responses(m) :
        /\ \A i \in DOMAIN R : R[i].attr = 0 /\ ~R[i].is_infra
        /\ \A i, j \in DOMAIN R : R[i].id = R[j].id => i = j}

\* A Client whose three mirrors are all driven.
InitClient ==
    /\ Constructed
    /\ cm = ManagerDefault
    /\ focus = Kinds

\* The three mirrors of one Client: check_service and the timer refresh
\* each of them unfiltered, the listings arrive in any order, and remove
\* events evict entities in between.
NextClient ==
    \/ \E m \in Kinds : m \in focus /\ InFlight(m) = 0 /\ Refresh(m) /\ OnlyMirrors
    \/ \E m \in Kinds : \E R \in ClientResponses(m) :
          m \in focus /\ RefreshOk(m, None, R) /\ OnlyMirrors
    \/ \E m \in Kinds : \E id \in Ids(m) : m \in focus /\ EventRemove(m, id) /\ OnlyMirrors

SpecClient == InitClient /\ [][NextClient]_vars

\* The listings of images, tagged or not.
ImageResponses ==
    SeqsUpTo([id : ImageIds, attr : {0}, is_infra : {FALSE},
              repo_tags : RepoTags], MaxRespLen)

\* The image mirror of a Client alone.
InitImages ==
    /\ Constructed
    /\ cm = ManagerDefault
    /\ focus = {"image"}

\* The image mirror under refreshes that succeed and the events of the
\* stream.
NextImages ==
    \/ Refresh("image") /\ OnlyMirrors
    \/ \E R \in ImageResponses : RefreshOk("image", None, R) /\ OnlyMirrors
    \/ \E id \in ImageIds, name \in TagNames :
           EventTag(id, name) /\ OnlyMirrors
    \/ \E id \in ImageIds, name \in TagNames :
           EventUntag(id, name) /\ OnlyMirrors
    \/ \E id \in ImageIds : EventRemove("image", id) /\ OnlyMirrors
    \/ \E id \in ImageIds : EventRefresh("image", id) /\ OnlyMirrors
    \/ \E id \in ImageIds : EventUnknown(id) /\ OnlyMirrors

SpecImages == InitImages /\ [][NextImages]_vars

\* ------------------------------------------------ the ConnectionManager
\* A call made by a handler: of a callback it was given, or of another
\* operation.
Call(name, arg) == Sig(name, None, arg, 0)

Names == {"a", "b"}

Connection(uuid, name) == [uuid |-> uuid, name |-> name]

\* What a store written by an earlier run may hold, and the stores.
StoredConnections == <<Connection(1, "a")>>

Stores ==
    {SubSeq(StoredConnections, 1, n) : n \in 0..Len(StoredConnections)}

\* The uuids a connection can have.
Uuids == 1..(Len(StoredConnections) + MaxConnects)

\* connection_by_uuid(uuid).is_some()
HasConnection(cs, uuid) == \E i \in DOMAIN cs : cs[i].uuid = uuid

\* The result of an operation of the manager: what was called, with which
\* name or uuid, and how it ended.
Result(op, name, uuid, how) ==
    [op |-> op, name |-> name, uuid |-> uuid, action |-> how]

\* set_client(value): the setting is written when a client is given, the
\* client is replaced, "client" is notified.
set_client(c, uuid) ==
    [c EXCEPT !.client = uuid,
              !.last_used = IF uuid # NoUuid THEN uuid ELSE @]

\* sync_to_disk: the snapshot of the collection is taken now and written
\* by a task of its own.
sync_to_disk(c) == [c EXCEPT !.writes = Append(@, c.connections)]

\* The manager's operations leave the Client's mirrors and service alone.
OnlyManager ==
    UNCHANGED <<list, listing, initialized, pending, focus, svc>>

\* Fewer than n sync_to_disk writes are in flight: an operation that
\* starts a write is only taken then.
CanWrite(n) == Len(cm.writes) < n

\* remove_connection(uuid) starts a write when it finds the connection.
CanRemove(uuid, n) == HasConnection(cm.connections, uuid) => CanWrite(n)

\* try_connect that does not look for the name in the collection.
TryConnectUnchecked(name, made) ==
    /\ OnlyManager
    /\ signals' = <<>>
    /\ IF ~made
       THEN /\ last' = Result("try_connect", name, NoUuid, "no_client")
            /\ UNCHANGED cm
       ELSE /\ cm.next <= Len(StoredConnections) + MaxConnects
            /\ last' = Result("try_connect", name, NoUuid, "pinging")
            /\ cm' = [cm EXCEPT !.pings = @ \cup {Connection(cm.next, name)},
                                !.next = @ + 1]

\* try_connect(name, url, ..): `made` says whether Client::try_from can
\* construct the gateway from the url.
TryConnect(name, made) ==
    /\ OnlyManager
    /\ signals' = <<>>
    /\ IF \E i \in DOMAIN cm.connections : cm.connections[i].name = name
       THEN /\ last' = Result("try_connect", name, NoUuid, "exists")
            /\ UNCHANGED cm
       ELSE IF ~made
       THEN /\ last' = Result("try_connect", name, NoUuid, "no_client")
            /\ UNCHANGED cm
       ELSE /\ cm.next <= Len(StoredConnections) + MaxConnects
            /\ last' = Result("try_connect", name, NoUuid, "pinging")
            /\ cm' = [cm EXCEPT !.pings = @ \cup {Connection(cm.next, name)},
                                !.next = @ + 1]

\* A completion with Ok that inserts the connection and leaves the client
\* as it is.
ConnectPingOkInsertOnly(c) ==
    /\ c \in cm.pings
    /\ OnlyManager
    /\ cm' = sync_to_disk([cm EXCEPT !.pings = @ \ {c},
                                     !.connections = Append(@, c)])
    /\ signals' = <<Sig("items-added", None, c.uuid, Len(cm.connections)),
                    Call("sync_to_disk", None),
                    Call("op", "Ok")>>
    /\ last' = Result("connect_ping", c.name, c.uuid, "ok")

\* The completion of try_connect's ping with Ok: set_client, insert_full,
\* items_changed, sync_to_disk, op(result).
ConnectPingOk(c) ==
    /\ c \in cm.pings
    /\ OnlyManager
    /\ LET c1 == set_client([cm EXCEPT !.pings = @ \ {c}], c.uuid)
           c2 == [c1 EXCEPT !.connections = Append(@, c)]
       IN /\ cm' = sync_to_disk(c2)
          /\ signals' = <<Call("notify-client", c.uuid),
                          Sig("items-added", None, c.uuid, Len(c1.connections)),
                          Call("sync_to_disk", None),
                          Call("op", "Ok")>>
    /\ last' = Result("connect_ping", c.name, c.uuid, "ok")

\* The completion of try_connect's ping with Err: logged, op(result).
ConnectPingErr(c) ==
    /\ c \in cm.pings
    /\ OnlyManager
    /\ cm' = [cm EXCEPT !.pings = @ \ {c}]
    /\ signals' = <<Call("op", "Err")>>
    /\ last' = Result("connect_ping", c.name, c.uuid, "err")

\* remove_connection that removes with swap_remove: the last connection
\* takes the place of the removed one.
RemoveConnectionSwap(uuid) ==
    /\ OnlyManager
    /\ last' = Result("remove_connection", None, uuid, "")
    /\ IF HasConnection(cm.connections, uuid)
       THEN LET i  == CHOOSE i \in DOMAIN cm.connections :
                             cm.connections[i].uuid = uuid
                   s  == cm.connections
                   c1 == [cm EXCEPT !.connections =
                             IF i = Len(s)
                             THEN SubSeq(s, 1, i - 1)
                             ELSE SubSeq(s, 1, i - 1) \o <<s[Len(s)]>>
                                    \o SubSeq(s, i + 1, Len(s) - 1)]
                   c2 == IF cm.client = uuid
                         THEN set_client(c1, NoUuid) ELSE c1
               IN /\ cm' = sync_to_disk(c2)
                  /\ signals' = (IF cm.client = uuid
                                 THEN <<Call("notify-client", NoUuid)>>
                                 ELSE <<>>)
                                \o <<Sig("items-removed", None, uuid, i - 1),
                                     Call("sync_to_disk", None)>>
       ELSE /\ UNCHANGED cm
            /\ signals' = <<>>

\* remove_connection that leaves the active client as it is.
RemoveConnectionKeepsClient(uuid) ==
    /\ OnlyManager
    /\ last' = Result("remove_connection", None, uuid, "")
    /\ IF HasConnection(cm.connections, uuid)
       THEN LET i  == CHOOSE i \in DOMAIN cm.connections :
                         cm.connections[i].uuid = uuid
                   c1 == [cm EXCEPT !.connections = ShiftRemove(@, i)]
               IN /\ cm' = sync_to_disk(c1)
                  /\ signals' = <<Sig("items-removed", None, uuid, i - 1),
                                  Call("sync_to_disk", None)>>
       ELSE /\ UNCHANGED cm
            /\ signals' = <<>>

\* remove_connection(uuid)
RemoveConnection(uuid) ==
    /\ OnlyManager
    /\ last' = Result("remove_connection", None, uuid, "")
    /\ IF HasConnection(cm.connections, uuid)
       THEN LET i  == CHOOSE i \in DOMAIN cm.connections :
                         cm.connections[i].uuid = uuid
                   c1 == [cm EXCEPT !.connections = ShiftRemove(@, i)]
                   c2 == IF cm.client = uuid
                         THEN set_client(c1, NoUuid) ELSE c1
               IN /\ cm' = sync_to_disk(c2)
                  /\ signals' = (IF cm.client = uuid
                                 THEN <<Call("notify-client", NoUuid)>>
                                 ELSE <<>>)
                                \o <<Sig("items-removed", None, uuid, i - 1),
                                     Call("sync_to_disk", None)>>
       ELSE /\ UNCHANGED cm
            /\ signals' = <<>>

\* set_client_from that makes the client active before it pings.
set_client_from_unpinged(c, uuid, made, pong) ==
    IF c.client # NoUuid /\ c.client = uuid
    THEN [cm |-> c, how |-> "ok"]
    ELSE IF ~HasConnection(c.connections, uuid)
    THEN [cm |-> c, how |-> "not_found"]
    ELSE IF ~made
    THEN [cm |-> c, how |-> "no_client"]
    ELSE [cm |-> set_client(c, uuid), how |-> IF pong THEN "ok" ELSE "no_pong"]

\* set_client_from(uuid) on the manager c: `made` says whether
\* Client::try_from succeeds, `pong` whether the blocking ping does.  The
\* manager afterwards, and how the call returned: "ok" for Ok(()),
\* otherwise the cause of the Err.
set_client_from(c, uuid, made, pong) ==
    IF c.client # NoUuid /\ c.client = uuid
    THEN [cm |-> c, how |-> "ok"]
    ELSE IF ~HasConnection(c.connections, uuid)
    THEN [cm |-> c, how |-> "not_found"]
    ELSE IF ~made
    THEN [cm |-> c, how |-> "no_client"]
    ELSE IF ~pong
    THEN [cm |-> c, how |-> "no_pong"]
    ELSE [cm |-> set_client(c, uuid), how |-> "ok"]

\* load_from_disk that takes a missing directory or file for an error.
load_from_disk_strict(c, io) ==
    IF c.disk = "ok" /\ io
    THEN [cm |-> c, how |-> "ok", value |-> c.store]
    ELSE [cm |-> c, how |-> "read_failed", value |-> <<>>]

\* load_from_disk() on the manager c: `io` says whether the file system
\* call it makes (create_dir_all, or open and read_to_end) succeeds.  The
\* manager afterwards, how the call returned ("ok" for Ok(value),
\* otherwise the cause of the Err) and the connections loaded.
load_from_disk(c, io) ==
    CASE c.disk = "no_dir" ->
             IF io
             THEN [cm |-> [c EXCEPT !.disk = "no_file"],
                   how |-> "ok", value |-> <<>>]
             ELSE [cm |-> c, how |-> "mkdir_failed", value |-> <<>>]
      [] c.disk = "no_file" ->
             [cm |-> c, how |-> "ok", value |-> <<>>]
      [] c.disk = "corrupt" ->
             [cm |-> c,
              how |-> IF io THEN "parse_failed" ELSE "read_failed",
              value |-> <<>>]
      [] c.disk = "ok" ->
             IF io
             THEN [cm |-> c, how |-> "ok", value |-> c.store]
             ELSE [cm |-> c, how |-> "read_failed", value |-> <<>>]

\* setup(), the first operation on the manager: the store is loaded into
\* the collection and, when it is not empty, the client is restored from
\* the setting "last-used-connection".  The result is the Err of
\* load_from_disk, or that of set_client_from, or Ok(()) for an empty
\* collection.
Setup(io, made, pong) ==
    LET ld == load_from_disk(cm, io)
        c1 == [ld.cm EXCEPT !.connections = @ \o ld.value, !.setup = TRUE]
        r  == IF ld.how # "ok"
              THEN [cm |-> [ld.cm EXCEPT !.setup = TRUE], how |-> ld.how]
              ELSE IF Len(c1.connections) > 0
              THEN set_client_from(c1, c1.last_used, made, pong)
              ELSE [cm |-> c1, how |-> "ok"]
    IN /\ cm = ManagerOn(cm.disk, cm.store, cm.last_used)
       /\ OnlyManager
       /\ cm' = r.cm
       /\ signals' = IF ld.how # "ok"
                     THEN <<>>
                     ELSE <<Sig("items-added", None, NoUuid, Len(ld.value))>>
                          \o IF r.cm.client # NoUuid
                             THEN <<Call("notify-client", r.cm.client)>>
                             ELSE <<>>
       /\ last' = Result("setup", None, cm.last_used, r.how)

\* A sync_to_disk task has written its snapshot: the directory is made
\* if it is missing, the file is truncated and rewritten.
WriteDone(i) ==
    /\ i \in DOMAIN cm.writes
    /\ OnlyManager
    /\ cm' = [cm EXCEPT !.disk = "ok", !.store = cm.writes[i],
                        !.writes = ShiftRemove(@, i)]
    /\ signals' = <<>>
    /\ last' = Result("write", None, NoUuid, "")

\* The manager after construction, before setup: over any store and any
\* value of the setting, with no mirror driven.
InitManager ==
    /\ Constructed
    /\ focus = {}
    /\ \E store \in Stores, used \in 0..Len(StoredConnections) :
           cm = ManagerOver(store, used)

NextManager ==
    \/ \E name \in Names, made \in BOOLEAN : TryConnect(name, made)
    \/ \E c \in cm.pings : CanWrite(MaxWrites) /\ ConnectPingOk(c)
    \/ \E c \in cm.pings : ConnectPingErr(c)
    \/ \E uuid \in Uuids : CanRemove(uuid, MaxWrites) /\ RemoveConnection(uuid)
    \/ \E made \in BOOLEAN, pong \in BOOLEAN : Setup(TRUE, made, pong)
    \/ \E i \in DOMAIN cm.writes : WriteDone(i)

SpecManager == InitManager /\ [][NextManager]_vars

\* set_client_from(uuid), as the connection switcher calls it.
SetClientFrom(uuid, made, pong) ==
    LET r == set_client_from(cm, uuid, made, pong)
    IN /\ OnlyManager
       /\ cm' = r.cm
       /\ signals' = IF r.cm.client # cm.client
                     THEN <<Call("notify-client", r.cm.client)>>
                     ELSE <<>>
       /\ last' = Result("set_client_from", None, uuid, r.how)

\* unset_client()
UnsetClient ==
    /\ OnlyManager
    /\ cm' = set_client(cm, NoUuid)
    /\ signals' = <<Call("notify-client", NoUuid)>>
    /\ last' = Result("unset_client", None, NoUuid, "")

\* The manager after construction over a store that an earlier run left
\* behind: the setting names the stored connection, or nothing was ever
\* stored.
InitActive ==
    /\ Constructed
    /\ focus = {}
    /\ \E store \in Stores :
          cm = ManagerOver(store, IF store = <<>> THEN NoUuid ELSE Len(store))

\* Every operation of the manager that touches the active client.  A
\* connection is tried while at most one other try is still pinging, and
\* a Client can be made from every connection that is in the collection.
NextActive ==
    \/ \E made \in BOOLEAN, pong \in BOOLEAN : Setup(TRUE, made, pong)
    \/ \E name \in Names :
          (\A p, q \in cm.pings : p = q) /\ TryConnect(name, TRUE)
    \/ \E c \in cm.pings : CanWrite(MaxWrites) /\ ConnectPingOk(c)
    \/ \E c \in cm.pings : ConnectPingErr(c)
    \/ \E uuid \in Uuids : CanRemove(uuid, MaxWrites) /\ RemoveConnection(uuid)
    \/ \E uuid \in Uuids, pong \in BOOLEAN : SetClientFrom(uuid, TRUE, pong)
    \/ UnsetClient
    \/ \E i \in DOMAIN cm.writes : WriteDone(i)

SpecActive == InitActive /\ [][NextActive]_vars

\* A first run of the manager: nothing stored, nothing connected.
InitWrites ==
    /\ Constructed
    /\ focus = {}
    /\ cm = ManagerDefault

\* Connections made and removed while the write of an earlier change may
\* still be in flight; the write tasks finish in any order.
NextWrites ==
    \/ \E name \in Names : TryConnect(name, TRUE)
    \/ \E c \in cm.pings : CanWrite(MaxWrites + 1) /\ ConnectPingOk(c)
    \/ \E uuid \in Uuids :
          CanRemove(uuid, MaxWrites + 1) /\ RemoveConnection(uuid)
    \/ \E i \in DOMAIN cm.writes : WriteDone(i)

SpecWrites == InitWrites /\ [][NextWrites]_vars

\* What can be found where the store is kept.
Disks == {"no_dir", "no_file", "corrupt", "ok"}

\* The manager after construction over any state of the disk: a file that
\* parses holds any store, and the setting names the stored connection.
InitStore ==
    /\ Constructed
    /\ focus = {}
    /\ \E disk \in Disks :
         \E store \in IF disk = "ok" THEN Stores ELSE {<<>>} :
            cm = ManagerOn(disk, store, Len(StoredConnections))

\* setup with a file system that may fail, then connections made and
\* written.
NextStore ==
    \/ \E io \in BOOLEAN, made \in BOOLEAN, pong \in BOOLEAN :
           Setup(io, made, pong)
    \/ \E name \in Names : TryConnect(name, TRUE)
    \/ \E c \in cm.pings : CanWrite(MaxWrites) /\ ConnectPingOk(c)
    \/ \E c \in cm.pings : ConnectPingErr(c)
    \/ \E i \in DOMAIN cm.writes : WriteDone(i)

SpecStore == InitStore /\ [][NextStore]_vars

\* ------------------------------------------------- the Client's service
\* ClientError::Images / Containers / Pods: the tag the per-domain error
\* callback is called with.
ClientError(m) ==
    CASE m = "image" -> "Images"
      [] m = "container" -> "Containers"
      [] m = "pod" -> "Pods"

\* image_list().refresh(..), container_list().refresh(None, ..) and
\* pod_list().refresh(None, ..), in this order.
RefreshCalls ==
    <<Sig("refresh", "image", None, 0),
      Sig("refresh", "container", None, 0),
      Sig("refresh", "pod", None, 0)>>

RefreshAll ==
    /\ \A m \in Kinds : InFlight(m) < MaxInflight
    /\ listing' = [m \in Kinds |-> TRUE]
    /\ pending' = [m \in Kinds |-> [pending[m] EXCEPT ![None] = @ + 1]]

\* check_service: the ping request is issued.
CheckService ==
    /\ svc.alive
    /\ svc.checks < MaxChecks
    /\ svc' = [svc EXCEPT !.checks = @ + 1, !.pings = @ + 1, !.by = 0]
    /\ signals' = <<>>
    /\ last' = Op("check_service", None, None, "")
    /\ UNCHANGED <<list, listing, initialized, pending, focus, cm>>

\* A completion of the ping with Ok that reports readiness before it
\* refreshes the mirrors.
PingOkReadyFirst ==
    /\ svc.alive
    /\ svc.pings > 0
    /\ RefreshAll
    /\ signals' = <<Call("op", None)>>
                     \o RefreshCalls
                     \o <<Call("start_event_listener", None),
                          Call("start_refresh_interval", None)>>
    /\ svc' = [svc EXCEPT !.pings = @ - 1,
                          !.loops = Append(@, "running"),
                          !.timers = @ + 1,
                          !.loud = [m \in Kinds |-> @[m] + 1],
                          !.by = 0]
    /\ last' = Op("ping_ok", None, None, "")
    /\ UNCHANGED <<list, initialized, focus, cm>>

\* The completion of check_service's ping with Ok: the three refreshes,
\* op(), start_event_listener, start_refresh_interval.
PingOk ==
    /\ svc.alive
    /\ svc.pings > 0
    /\ RefreshAll
    /\ signals' = RefreshCalls
                     \o <<Call("op", None),
                          Call("start_event_listener", None),
                          Call("start_refresh_interval", None)>>
    /\ svc' = [svc EXCEPT !.pings = @ - 1,
                          !.loops = Append(@, "running"),
                          !.timers = @ + 1,
                          !.loud = [m \in Kinds |-> @[m] + 1],
                          !.by = 0]
    /\ last' = Op("ping_ok", None, None, "")
    /\ UNCHANGED <<list, initialized, focus, cm>>

\* A completion of the ping with Err that tries again.
PingErrRetries ==
    /\ svc.alive
    /\ svc.pings > 0
    /\ svc' = [svc EXCEPT !.by = 0]
    /\ signals' = <<>>
    /\ last' = Op("ping_err", None, None, "")
    /\ UNCHANGED <<list, listing, initialized, pending, focus, cm>>

\* The completion of check_service's ping with Err: logged only.
PingErr ==
    /\ svc.alive
    /\ svc.pings > 0
    /\ svc' = [svc EXCEPT !.pings = @ - 1, !.by = 0]
    /\ signals' = <<>>
    /\ last' = Op("ping_err", None, None, "")
    /\ UNCHANGED <<list, listing, initialized, pending, focus, cm>>

\* A timer whose callback stops ticking once no event loop is running.
TimerTickWhileListening ==
    /\ svc.alive
    /\ svc.timers > 0
    /\ \E k \in DOMAIN svc.loops : svc.loops[k] = "running"
    /\ RefreshAll
    /\ signals' = RefreshCalls
    /\ svc' = [svc EXCEPT !.by = 0]
    /\ last' = Op("tick", None, None, "")
    /\ UNCHANGED <<list, initialized, focus, cm>>

\* A tick of the timer start_refresh_interval installed: the three
\* refreshes, each with an empty err_op.
TimerTick ==
    /\ svc.alive
    /\ svc.timers > 0
    /\ RefreshAll
    /\ signals' = RefreshCalls
    /\ svc' = [svc EXCEPT !.by = 0]
    /\ last' = Op("tick", None, None, "")
    /\ UNCHANGED <<list, initialized, focus, cm>>

\* The event loop k received Ok(event) with event.typ = m: the mirror's
\* handle_event, with an err_op that calls the per-domain callback; the
\* loop goes on.
StreamEvent(k, m, action, id) ==
    /\ svc.alive
    /\ k \in DOMAIN svc.loops
    /\ svc.loops[k] = "running"
    /\ CASE action = "remove" -> EventRemove(m, id)
         [] action = "refresh" -> EventRefresh(m, id)
         [] action = "health_status" -> m = "container" /\ EventHealthStatus(id)
         [] action = "unknown" -> m = "image" /\ EventUnknown(id)
    /\ svc' = [svc EXCEPT !.by = k,
                          !.loud[m] = IF action = "refresh" THEN @ + 1 ELSE @]
    /\ UNCHANGED cm

\* An arm for the other event types that ends the loop.
StreamEventUnhandledStops(k) ==
    /\ svc.alive
    /\ k \in DOMAIN svc.loops
    /\ svc.loops[k] = "running"
    /\ svc' = [svc EXCEPT !.by = k, !.loops[k] = "stopped"]
    /\ signals' = <<>>
    /\ last' = Op("event", None, None, "unhandled")
    /\ UNCHANGED <<list, listing, initialized, pending, focus, cm>>

\* The event loop k received Ok(event) of another type: logged; the loop
\* goes on.
StreamEventUnhandled(k) ==
    /\ svc.alive
    /\ k \in DOMAIN svc.loops
    /\ svc.loops[k] = "running"
    /\ svc' = [svc EXCEPT !.by = k]
    /\ signals' = <<>>
    /\ last' = Op("event", None, None, "unhandled")
    /\ UNCHANGED <<list, listing, initialized, pending, focus, cm>>

\* An Err arm that reports the error and lets the loop go on.
StreamErrorContinues(k) ==
    /\ svc.alive
    /\ k \in DOMAIN svc.loops
    /\ svc.loops[k] = "running"
    /\ svc' = [svc EXCEPT !.by = k]
    /\ signals' = <<Sig("finish_op", None, None, k)>>
    /\ last' = Op("stream_err", None, None, "")
    /\ UNCHANGED <<list, listing, initialized, pending, focus, cm>>

\* The event loop k received Err(e): finish_op(e), and the callback
\* returns Continue(false), which ends the loop.
StreamError(k) ==
    /\ svc.alive
    /\ k \in DOMAIN svc.loops
    /\ svc.loops[k] = "running"
    /\ svc' = [svc EXCEPT !.by = k, !.loops[k] = "stopped"]
    /\ signals' = <<Sig("finish_op", None, None, k)>>
    /\ last' = Op("stream_err", None, None, "")
    /\ UNCHANGED <<list, listing, initialized, pending, focus, cm>>

\* Whether a request of mirror m with (loud) or without the per-domain
\* callback is in flight.
Outstanding(m, loud) ==
    IF loud THEN svc.loud[m] > 0 ELSE pending[m][None] > svc.loud[m]

\* The completion of an unfiltered refresh of mirror m with the listing R.
ServiceRefreshOk(m, loud, R) ==
    /\ svc.alive
    /\ Outstanding(m, loud)
    /\ RefreshOk(m, None, R)
    /\ svc' = [svc EXCEPT !.by = 0, !.loud[m] = IF loud THEN @ - 1 ELSE @]
    /\ UNCHANGED cm

\* The failure of an unfiltered refresh of mirror m: the mirror calls the
\* err_op it was given, which calls err_op(ClientError) when the request
\* came from check_service or the event loop and nothing when it came
\* from the timer.
ServiceRefreshErr(m, loud) ==
    /\ svc.alive
    /\ Outstanding(m, loud)
    /\ pending[m][None] > 0
    /\ Complete(m, None,
                IF loud
                THEN Emit(refresh_err(Now, m), Call("err_op", ClientError(m)))
                ELSE refresh_err(Now, m),
                "refresh_err")
    /\ svc' = [svc EXCEPT !.by = 0, !.loud[m] = IF loud THEN @ - 1 ELSE @]
    /\ UNCHANGED cm

\* While the service is exercised the remote end holds nothing.
ServiceResponses == {<<>>}

\* One entity of each kind stands for the actor of the events.
ServiceIds(m) == {CHOOSE id \in Ids(m) : TRUE}

\* One Client: check_service, its ping, the refreshes it and the timer
\* issue, and the event loop.
NextService ==
    \/ CheckService
    \/ PingOk
    \/ PingErr
    \/ TimerTick
    \/ \E k \in 1..MaxChecks : \E m \in Kinds : \E id \in ServiceIds(m) :
       \E action \in {"remove", "refresh"} : StreamEvent(k, m, action, id)
    \/ \E k \in 1..MaxChecks : \E id \in ServiceIds("container") :
          StreamEvent(k, "container", "health_status", id)
    \/ \E k \in 1..MaxChecks : \E id \in ServiceIds("image") :
          StreamEvent(k, "image", "unknown", id)
    \/ \E k \in 1..MaxChecks : StreamEventUnhandled(k)
    \/ \E k \in 1..MaxChecks : StreamError(k)
    \/ \E m \in Kinds : \E loud \in BOOLEAN : \E R \in ServiceResponses :
          ServiceRefreshOk(m, loud, R)
    \/ \E m \in Kinds : \E loud \in BOOLEAN : ServiceRefreshErr(m, loud)

SpecService == InitClient /\ [][NextService]_vars

\* The last reference to the Client is dropped (the manager replaces its
\* client): the Client and the mirrors it owns are destroyed, while the
\* requests, the event streams and the timers it started are still there.
\* No err_op of a request in flight will be called any more, so which of
\* them carry the per-domain callback is no longer told apart.
Destroy ==
    /\ svc.alive
    /\ svc' = [svc EXCEPT !.alive = FALSE, !.by = 0,
                          !.loud = [m \in Kinds |-> 0]]
    /\ signals' = <<>>
    /\ last' = Op("destroy", None, None, "")
    /\ UNCHANGED <<list, listing, initialized, pending, focus, cm>>

\* What the weak-reference guard of a callback leaves of a delivery when
\* the upgrade fails: nothing is read, written or called.
Dropped(what) ==
    /\ ~svc.alive
    /\ signals' = <<>>
    /\ last' = Op("dropped", None, None, what)
    /\ UNCHANGED <<list, listing, initialized, focus, cm>>

\* The ping of check_service completes after the Client is gone.
DroppedPing ==
    /\ svc.pings > 0
    /\ Dropped("ping")
    /\ svc' = [svc EXCEPT !.pings = @ - 1, !.by = 0]
    /\ UNCHANGED pending

\* A list request of mirror m completes, with Ok or Err, after the mirror
\* is gone: the err_op it carries is dropped with it.
DroppedRefresh(m) ==
    /\ pending[m][None] > 0
    /\ Dropped("refresh")
    /\ pending' = [pending EXCEPT ![m][None] = @ - 1]
    /\ svc' = [svc EXCEPT !.by = 0]

\* An event loop whose callback keeps the stream after a failed upgrade.
DroppedEventContinues(k) ==
    /\ k \in DOMAIN svc.loops
    /\ svc.loops[k] = "running"
    /\ Dropped("event")
    /\ svc' = [svc EXCEPT !.by = k]
    /\ UNCHANGED pending

\* The event loop k receives an item, Ok or Err, after the Client is gone:
\* @default-return glib::Continue(false) ends the loop.
DroppedEvent(k) ==
    /\ k \in DOMAIN svc.loops
    /\ svc.loops[k] = "running"
    /\ Dropped("event")
    /\ svc' = [svc EXCEPT !.by = k, !.loops[k] = "stopped"]
    /\ UNCHANGED pending

\* A timer ticks after the Client is gone: @default-return
\* glib::Continue(false) removes that timer.
DroppedTick ==
    /\ svc.timers > 0
    /\ Dropped("tick")
    /\ svc' = [svc EXCEPT !.timers = @ - 1, !.by = 0]
    /\ UNCHANGED pending

\* One Client from check_service to its destruction and the deliveries
\* that come after it.
NextLifetime ==
    \/ NextService
    \/ Destroy
    \/ DroppedPing
    \/ \E m \in Kinds : DroppedRefresh(m)
    \/ \E k \in 1..MaxChecks : DroppedEvent(k)
    \/ DroppedTick

\* The main loop runs a timer whenever it is due.
SpecLifetime ==
    /\ InitClient
    /\ [][NextLifetime]_vars
    /\ WF_vars(TimerTick)

\* ------------------------------------------------------------ observations
\* The positions of the signals named `name` that mirror m emitted for id.
SigPositions(sigs, name, m, id) ==
    {i \in DOMAIN sigs : sigs[i].sig = name /\ sigs[i].m = m /\ sigs[i].id = id}

\* The ids for which mirror m emitted the signal `name`.
SigIds(sigs, name, m) ==
    {sigs[i].id : i \in {k \in DOMAIN sigs : sigs[k].sig = name /\ sigs[k].m = m}}

\* The result of applying the successful unfiltered listing R to mirror m
\* as it stands.
FullRefresh(m, R) == refresh_ok(Now, m, None, R)

\* The same listing applied once more to the result W.
Again(W, m, R) == refresh_ok(World(W.list, W.list, <<>>), m, None, R)

\* ------------------------------------------------------------------ C1
\* C1: a mirror never holds two entities with the same remote id, whatever
\* refresh completions (full or scoped, also of a listing that names an id
\* twice) and events have been applied.
NoDuplicateIds ==
    \A m \in Kinds : \A i, j \in DOMAIN list[m] :
        list[m][i].id = list[m][j].id => i = j

\* A successful refresh has just applied a listing that names one id
\* twice (the id was added and then updated by the same listing) to a
\* mirror that now holds two entities.
NoDuplicateIdsWitness ==
    /\ last.op = "refresh_ok"
    /\ Len(list[last.m]) = 2
    /\ \E id \in Ids(last.m) :
          /\ SigPositions(signals, "items-added", last.m, id) # {}
          /\ SigPositions(signals, "update", last.m, id) # {}

\* ------------------------------------------------------------------ C2
\* C2: a successful unfiltered refresh removes exactly the held ids that do
\* not occur in the response, each once, and keeps every held id that
\* occurs in it.
FullRefreshRemovesExactlyAbsent ==
    \A m \in focus : \A R \in Responses(m) :
        LET W == FullRefresh(m, R)
        IN /\ SigIds(W.sigs, "items-removed", m) = KeysOf(list[m]) \ RespIds(R)
           /\ \A id \in Ids(m) :
                 Cardinality(SigPositions(W.sigs, "items-removed", m, id)) <= 1
           /\ KeysOf(list[m]) \cap RespIds(R) \subseteq KeysOf(W.list[m])
           /\ (KeysOf(list[m]) \ RespIds(R)) \cap KeysOf(W.list[m]) = {}

\* An unfiltered refresh has just removed one entity and kept another.
FullRefreshRemovesWitness ==
    /\ last.op = "refresh_ok"
    /\ last.id = None
    /\ SigIds(signals, "items-removed", last.m) # {}
    /\ \E i \in DOMAIN list[last.m] :
          list[last.m][i].id \notin SigIds(signals, "items-added", last.m)

\* ------------------------------------------------------------------ C3
\* C3: a failed refresh leaves every mirror as it was (no entity added,
\* removed or updated, order kept), fires no added, removed or deleted
\* notification, and invokes the caller's error callback exactly once.
FailedRefreshChangesNothing ==
    [][last'.op = "refresh_err"
         => /\ list' = list
            /\ signals' = <<Sig("err_op", last'.m, None, 0)>>]_vars

\* A refresh of a mirror that holds entities has just failed.
FailedRefreshWitness ==
    /\ last.op = "refresh_err"
    /\ Len(list[last.m]) > 0
    /\ Len(signals) = 1

\* ------------------------------------------------------------------ C4
\* C4: applying the same successful unfiltered listing a second time
\* leaves the mirror as the first application left it (same ids, order,
\* objects and attributes) and fires no added and no removed notification.
FullRefreshIdempotent ==
    \A m \in focus : \A R \in Responses(m) :
        LET W1 == FullRefresh(m, R)
            W2 == Again(W1, m, R)
        IN /\ W2.list = W1.list
           /\ \A i \in DOMAIN W2.sigs : W2.sigs[i].sig = "update"

\* An unfiltered refresh has just found every listed entity already held:
\* it only called update, on a mirror of two entities.
FullRefreshIdempotentWitness ==
    /\ last.op = "refresh_ok"
    /\ last.id = None
    /\ Len(list[last.m]) = 2
    /\ Len(signals) >= 2
    /\ \A i \in DOMAIN signals : signals[i].sig = "update"

\* ------------------------------------------------------------------ C5
\* The entities of s whose id is in S, in the order of s.
RECURSIVE Keep(_, _)
Keep(s, S) ==
    IF s = <<>>
    THEN <<>>
    ELSE IF Head(s).id \in S
         THEN <<Head(s)>> \o Keep(Tail(s), S)
         ELSE Keep(Tail(s), S)

\* The ids of the summaries of R that are not infra and not in `seen`, each
\* once, in the order of their first occurrence.
RECURSIVE FirstNew(_, _)
FirstNew(R, seen) ==
    IF R = <<>>
    THEN <<>>
    ELSE IF Head(R).is_infra \/ Head(R).id \in seen
         THEN FirstNew(Tail(R), seen)
         ELSE <<Head(R).id>> \o FirstNew(Tail(R), seen \cup {Head(R).id})

\* The positions of the summaries of R that update the entity id.
UpdatesOf(R, id) == {i \in DOMAIN R : R[i].id = id /\ ~R[i].is_infra}

\* C5: after a successful unfiltered refresh the entities that were held
\* and occur in the response come first, in their old order and as the same
\* objects, carrying the attributes of their last summary; the entities new
\* in the response follow, in response order.
FullRefreshKeepsOrderAndIdentity ==
    \A m \in focus : \A R \in Responses(m) :
        LET old  == Keep(list[m], RespIds(R))
            new  == FirstNew(R, KeysOf(list[m]))
            now  == FullRefresh(m, R).list[m]
        IN /\ Len(now) = Len(old) + Len(new)
           /\ \A i \in DOMAIN old :
                 /\ Ref(now[i]) = Ref(old[i])
                 /\ now[i].attr =
                      IF UpdatesOf(R, old[i].id) = {}
                      THEN old[i].attr
                      ELSE R[CHOOSE k \in UpdatesOf(R, old[i].id) :
                               \A j \in UpdatesOf(R, old[i].id) : j <= k].attr
           /\ \A i \in DOMAIN new : now[Len(old) + i].id = new[i]

\* An unfiltered refresh has just kept a held entity and appended a new
\* one behind it, although the response named the new one first: the
\* update of the first entity came after the added signal of the second.
FullRefreshKeepsOrderWitness ==
    /\ last.op = "refresh_ok"
    /\ last.id = None
    /\ Len(list[last.m]) = 2
    /\ \E i \in SigPositions(signals, "items-added", last.m, list[last.m][2].id) :
       \E j \in SigPositions(signals, "update", last.m, list[last.m][1].id) :
          i < j

\* ------------------------------------------------------------------ C6
\* C6: when a container C whose image id is I is held while image I is not,
\* the step in which the image mirror comes to hold I leaves C.image
\* referring to that image object and C in the image's containers.
ImageAddedLinksContainers ==
    [][\A I \in ImageIds : \A C \in ContainerIds :
          (/\ Has(list, "container", C)
           /\ image_id(C) = I
           /\ ~Has(list, "image", I)
           /\ Has(list', "image", I))
          => /\ Has(list', "container", C)
             /\ Get(list', "container", C).image = Ref(Get(list', "image", I))
             /\ C \in Get(list', "image", I).containers]_vars

\* An image refresh has just added image i1 while both containers, whose
\* image it is, were already held: both now refer to it.
ImageAddedLinksWitness ==
    /\ last.op = "refresh_ok"
    /\ last.m = "image"
    /\ SigPositions(signals, "image-added", "image", "i1") # {}
    /\ Len(list["container"]) = 2
    /\ \A i \in DOMAIN list["container"] :
          list["container"][i].image = Ref(Get(list, "image", "i1"))
    /\ Get(list, "image", "i1").containers = ContainerIds

\* ------------------------------------------------------------------ C7
\* The containers mirror m's entity e should list: the held containers
\* whose image id (pod id) is e's id.
ContainersOf(l, m, e) ==
    {c \in KeysOf(l["container"]) :
        IF m = "image" THEN image_id(c) = e.id ELSE pod_id(c) = e.id}

\* C7: whatever the order in which the listings of the three mirrors were
\* applied, every held container whose image (pod) is held refers to that
\* image (pod) object, and every held image (pod) lists exactly the held
\* containers of its id: the links are a function of what the mirrors
\* hold, not of the order of arrival.
LinksOrderIndependent ==
    /\ \A i \in DOMAIN list["container"] :
          LET c == list["container"][i]
          IN /\ Has(list, "image", image_id(c.id))
                  => c.image = Ref(Get(list, "image", image_id(c.id)))
             /\ (pod_id(c.id) # None /\ Has(list, "pod", pod_id(c.id)))
                  => c.pod = Ref(Get(list, "pod", pod_id(c.id)))
    /\ \A m \in {"image", "pod"} : \A i \in DOMAIN list[m] :
          list[m][i].containers = ContainersOf(list, m, list[m][i])

\* The pod listing has just arrived last, after the containers and the
\* images: container c1 is linked to its image and to its pod.
LinksOrderIndependentWitness ==
    /\ last.op = "refresh_ok"
    /\ last.m = "pod"
    /\ SigPositions(signals, "pod-added", "pod", "p1") # {}
    /\ Has(list, "container", "c1")
    /\ Has(list, "image", "i1")
    /\ Get(list, "container", "c1").pod = Ref(Get(list, "pod", "p1"))
    /\ Get(list, "container", "c1").image = Ref(Get(list, "image", "i1"))
    /\ "c1" \in Get(list, "pod", "p1").containers

\* ------------------------------------------------------------------ C8
\* C8: right after handle_event of a "remove" action for id X, the mirror
\* does not hold X, and the event has issued no list request: the requests
\* in flight and the listing flag are what they were.
RemoveEventEvictsAtOnce ==
    [][(last'.op = "event" /\ last'.action = "remove")
         => /\ ~Has(list', last'.m, last'.id)
            /\ pending' = pending
            /\ listing' = listing]_vars

\* A remove event has just evicted a held entity while a refresh of that
\* mirror was in flight.
RemoveEventWitness ==
    /\ last.op = "event"
    /\ last.action = "remove"
    /\ SigPositions(signals, "items-removed", last.m, last.id) # {}
    /\ InFlight(last.m) > 0

\* ------------------------------------------------------------------ C9
\* The signals a removal of a held entity must have fired, `first` before
\* `second`, each exactly once.
FiredOnceInOrder(sigs, m, id, first, second) ==
    /\ Cardinality(SigPositions(sigs, first, m, id)) = 1
    /\ Cardinality(SigPositions(sigs, second, m, id)) = 1
    /\ \A i \in SigPositions(sigs, first, m, id) :
       \A j \in SigPositions(sigs, second, m, id) : i < j

\* C9 as claimed: removing a held entity fires the collection's removed
\* notification and then the entity's deleted notification, once each;
\* removing an id that is not held fires neither.
RemovedThenDeleted ==
    [][(last'.op = "event" /\ last'.action = "remove")
         => IF Has(list, last'.m, last'.id)
            THEN FiredOnceInOrder(signals', last'.m, last'.id,
                                  "items-removed", "deleted")
            ELSE signals' = <<>>]_vars

\* What one step's signals say of a removal of id from mirror m: the
\* entity's deleted notification, then the collection's removed
\* notification (items_changed; for a container, container-removed before
\* it), once each.
DeletedBeforeRemoved(sigs, m, id) ==
    /\ FiredOnceInOrder(sigs, m, id, "deleted", "items-removed")
    /\ m = "container"
         => /\ FiredOnceInOrder(sigs, m, id, "deleted", "container-removed")
            /\ FiredOnceInOrder(sigs, m, id, "container-removed", "items-removed")

\* C9 as the code has it: removing a held entity, by a remove event or by
\* a refresh, fires the entity's deleted notification and then the
\* collection's removed notification, once each; removing an id that is
\* not held fires neither.
DeletedThenRemoved ==
    [][/\ (last'.op = "event" /\ last'.action = "remove")
            => IF Has(list, last'.m, last'.id)
               THEN DeletedBeforeRemoved(signals', last'.m, last'.id)
               ELSE signals' = <<>>
       /\ \A m \in Kinds : \A id \in Ids(m) :
             (SigPositions(signals', "deleted", m, id)
                \cup SigPositions(signals', "items-removed", m, id) # {})
             => /\ Has(list, m, id)
                /\ DeletedBeforeRemoved(signals', m, id)]_vars

\* A remove event has just removed a held container.
DeletedThenRemovedWitness ==
    /\ last.op = "event"
    /\ last.action = "remove"
    /\ last.m = "container"
    /\ SigPositions(signals, "deleted", last.m, last.id) # {}

\* ----------------------------------------------------------------- C10
\* C10: listing is true only while a refresh request of the mirror is in
\* flight.
ListingOnlyWhileInFlight ==
    \A m \in Kinds : listing[m] => InFlight(m) > 0

\* Two overlapping refreshes of an initialized mirror are in flight and
\* listing is set.
ListingWitness ==
    \E m \in Kinds : listing[m] /\ initialized[m] /\ InFlight(m) >= 2

\* ----------------------------------------------------------------- C11
\* C11 as claimed: whenever a refresh request of a mirror is outstanding,
\* the mirror's listing flag is set, also when refreshes overlap and one of
\* them has completed.
ListingWhileInFlight ==
    \A m \in Kinds : InFlight(m) > 0 => listing[m]

\* ----------------------------------------------------------------- C12
\* C12: initialized is false when the Client is constructed, becomes true
\* only in the step that applies a completion of a refresh of that mirror,
\* is true after every such step, succeeded or failed, and never goes back
\* to false.
InitializedByFirstCompletion ==
    /\ \A m \in Kinds : ~initialized[m]
    /\ [][/\ last'.op \in {"refresh_ok", "refresh_err"} => initialized'[last'.m]
          /\ \A m \in Kinds :
                /\ initialized[m] => initialized'[m]
                /\ (~initialized[m] /\ initialized'[m])
                     => (last'.op \in {"refresh_ok", "refresh_err"} /\ last'.m = m)]_vars

\* A refresh of a mirror has just failed: the mirror is empty and
\* initialized, with no request left in flight.
InitializedWitness ==
    /\ last.op = "refresh_err"
    /\ initialized[last.m]
    /\ list[last.m] = <<>>
    /\ InFlight(last.m) = 0

\* ----------------------------------------------------------------- C13
\* The positions of the calls of finish_op by event loop k.
FinishOps(sigs, k) ==
    {i \in DOMAIN sigs : sigs[i].sig = "finish_op" /\ sigs[i].pos = k}

\* C13: an event loop stops at the first error of its stream: the step
\* that receives the error calls finish_op once and leaves the loop
\* stopped; a stopped loop stays stopped, dispatches no event and calls
\* finish_op no more.
EventLoopStopsAtFirstError ==
    [][\A k \in DOMAIN svc'.loops :
          /\ (last'.op = "stream_err" /\ svc'.by = k)
               => /\ svc'.loops[k] = "stopped"
                  /\ Cardinality(FinishOps(signals', k)) = 1
                  /\ list' = list /\ pending' = pending
          /\ FinishOps(signals', k) # {}
               => (last'.op = "stream_err" /\ svc'.by = k)
          /\ (k \in DOMAIN svc.loops /\ svc.loops[k] = "stopped")
               => /\ svc'.loops[k] = "stopped"
                  /\ svc'.by # k
                  /\ FinishOps(signals', k) = {}]_vars

\* The event loop has stopped at an error and the timer has ticked since.
EventLoopStoppedWitness ==
    /\ last.op = "tick"
    /\ svc.loops # <<>>
    /\ svc.loops[1] = "stopped"

\* ----------------------------------------------------------------- C14
\* C14: the completion of check_service's ping with Ok calls refresh once
\* on each mirror (one more unfiltered request in flight on each), then
\* op once, then start_event_listener, then start_refresh_interval (one
\* more loop, one more timer); op is called in no other step; and the
\* failure of a request that carries the per-domain callback calls it
\* once, with the tag of the mirror that failed.
CheckServiceStartsInOrder ==
    [][/\ last'.op = "ping_ok"
            => /\ \A m \in Kinds :
                     /\ Cardinality(SigPositions(signals', "refresh", m, None)) = 1
                     /\ pending'[m][None] = pending[m][None] + 1
                     /\ \A i \in SigPositions(signals', "refresh", m, None) :
                        \A j \in SigPositions(signals', "op", None, None) : i < j
               /\ FiredOnceInOrder(signals', None, None,
                                   "op", "start_event_listener")
               /\ FiredOnceInOrder(signals', None, None,
                                   "start_event_listener", "start_refresh_interval")
               /\ Len(svc'.loops) = Len(svc.loops) + 1
               /\ svc'.loops[Len(svc'.loops)] = "running"
               /\ svc'.timers = svc.timers + 1
       /\ SigPositions(signals', "op", None, None) # {} => last'.op = "ping_ok"
       /\ (last'.op = "refresh_err" /\ svc'.loud[last'.m] < svc.loud[last'.m])
            => /\ Cardinality(SigPositions(signals', "err_op", None,
                                           ClientError(last'.m))) = 1
               /\ \A m \in Kinds \ {last'.m} :
                     SigPositions(signals', "err_op", None, ClientError(m)) = {}]_vars

\* After check_service's ping succeeded, the refresh of the pod mirror it
\* issued has failed and called the per-domain callback, while the event
\* loop and the timer it started run.
CheckServiceWitness ==
    /\ last.op = "refresh_err"
    /\ last.m = "pod"
    /\ SigPositions(signals, "err_op", None, "Pods") # {}
    /\ svc.loops = <<"running">>
    /\ svc.timers = 1

\* ----------------------------------------------------------------- C15
\* C15: the completion of check_service's ping with Err issues no request
\* (no refresh, no new ping), calls no callback, starts no event loop and
\* no timer, and changes no mirror.
PingFailureDoesNothing ==
    [][last'.op = "ping_err"
         => /\ signals' = <<>>
            /\ pending' = pending
            /\ listing' = listing
            /\ list' = list
            /\ svc'.pings = svc.pings - 1
            /\ svc'.loops = svc.loops
            /\ svc'.timers = svc.timers
            /\ svc'.loud = svc.loud]_vars

\* check_service's ping has failed: nothing is in flight, no loop and no
\* timer exist.
PingFailureWitness ==
    /\ last.op = "ping_err"
    /\ svc.pings = 0
    /\ svc.loops = <<>>
    /\ svc.timers = 0
    /\ \A m \in Kinds : InFlight(m) = 0


\* ---------------------------------------------------------------- C16
\* The names of the connections in the collection.
NamesOf(cs) == {cs[i].name : i \in DOMAIN cs}

\* C16: try_connect with a name some connection of the collection already
\* has returns the error at once: no ping is started, and the collection,
\* the persisted store, the writes in flight and the active client are
\* what they were.
DuplicateNameRejected ==
    [][(last'.op = "try_connect" /\ last'.name \in NamesOf(cm.connections))
         => /\ last'.action = "exists"
            /\ cm'.pings = cm.pings
            /\ cm'.connections = cm.connections
            /\ cm'.store = cm.store
            /\ cm'.writes = cm.writes
            /\ cm'.client = cm.client
            /\ signals' = <<>>]_vars

\* try_connect was refused for its name on a manager with an active
\* client and another ping in flight.
DuplicateNameWitness ==
    /\ last.op = "try_connect"
    /\ last.action = "exists"
    /\ last.name \in NamesOf(cm.connections)
    /\ cm.client # NoUuid
    /\ cm.pings # {}

\* ---------------------------------------------------------------- C17
\* The parts of the manager a failed try_connect must leave alone.
Kept(c) == <<c.connections, c.store, c.writes, c.client>>

\* C17: try_connect is all-or-nothing.  When its ping completes with Ok,
\* the new connection is in the collection (it was not before) and the
\* active client is the one made from it; when the ping completes with
\* Err, or the Client cannot be made from the url, the collection, the
\* persisted store, the writes in flight and the active client are what
\* they were.  In either completion the connection is in the collection
\* exactly if its Client is the active one.
TryConnectAllOrNothing ==
    [][/\ (last'.op = "connect_ping" /\ last'.action = "ok")
            => /\ ~HasConnection(cm.connections, last'.uuid)
               /\ HasConnection(cm'.connections, last'.uuid)
               /\ Len(cm'.connections) = Len(cm.connections) + 1
               /\ cm'.client = last'.uuid
       /\ (\/ last'.op = "connect_ping" /\ last'.action = "err"
           \/ last'.op = "try_connect" /\ last'.action = "no_client")
            => Kept(cm') = Kept(cm)
       /\ last'.op = "connect_ping"
            => (HasConnection(cm'.connections, last'.uuid)
                   <=> cm'.client = last'.uuid)]_vars

\* A ping of try_connect has completed with Ok on a manager that had a
\* connection and an active client already.
TryConnectWitness ==
    /\ last.op = "connect_ping"
    /\ last.action = "ok"
    /\ Len(cm.connections) >= 2
    /\ cm.client = last.uuid
    /\ cm.connections[Len(cm.connections)].uuid = last.uuid

\* ---------------------------------------------------------------- C18
\* C18: no two connections of the collection have the same name, whatever
\* the interleaving of try_connect calls and the completions of their
\* pings.
UniqueNames ==
    \A i, j \in DOMAIN cm.connections :
        cm.connections[i].name = cm.connections[j].name => i = j

\* ---------------------------------------------------------------- C19
\* The connections of cs other than the one with this uuid, in their order.
Others(cs, uuid) ==
    LET Other(c) == c.uuid # uuid
    IN SelectSeq(cs, Other)

\* C19: remove_connection(uuid) of a connection of the collection leaves
\* the other connections in their order, one fewer than before, and the
\* active client is cleared exactly if it was made from that connection
\* (otherwise it is the client it was); for a uuid that is not in the
\* collection the manager is what it was and no write is started.
RemoveExactlyThat ==
    [][last'.op = "remove_connection"
         => IF HasConnection(cm.connections, last'.uuid)
            THEN /\ cm'.connections = Others(cm.connections, last'.uuid)
                 /\ Len(cm'.connections) = Len(cm.connections) - 1
                 /\ cm'.client =
                       IF cm.client = last'.uuid THEN NoUuid ELSE cm.client
            ELSE /\ cm' = cm
                 /\ signals' = <<>>]_vars

\* The first of three connections was removed, the active client being
\* made from another one: the two others remain and the client is kept.
RemoveWitness ==
    /\ last.op = "remove_connection"
    /\ Len(signals) = 2
    /\ signals[1].sig = "items-removed"
    /\ signals[1].pos = 0
    /\ Len(cm.connections) = 2
    /\ cm.client # NoUuid

\* ---------------------------------------------------------------- C20
\* C20: setup over a store that is not empty loads the store and, when
\* the ping of the last-used connection succeeds, returns Ok with the
\* Client of that connection active; when that ping fails it returns
\* the error and no client is active; it returns Ok only after a ping
\* that succeeded.
SetupRestoresOrFails ==
    [][(last'.op = "setup" /\ Len(cm.store) > 0)
         => /\ cm'.connections = cm.store
            /\ last'.action = "ok"
                 => /\ cm'.client = cm.last_used
                    /\ HasConnection(cm'.connections, cm'.client)
            /\ last'.action # "ok" => cm'.client = NoUuid
            /\ last'.action \in {"ok", "no_pong", "no_client", "not_found"}]_vars

\* setup has failed on the ping of the last-used connection: the store is
\* loaded and no client is active.
SetupFailedWitness ==
    /\ last.op = "setup"
    /\ last.action = "no_pong"
    /\ HasConnection(cm.connections, cm.last_used)
    /\ cm.client = NoUuid

TagCrossingCountsOnce ==
    [][(/\ last'.op = "event"
        /\ last'.m = "image"
        /\ last'.action \in {"tag", "untag"}
        /\ Has(list, "image", last'.id))
         => LET n0 == Cardinality(Get(list, "image", last'.id).tags)
                n1 == Cardinality(Get(list', "image", last'.id).tags)
            IN /\ (last'.action = "tag" /\ n0 = 0 /\ n1 = 1)
                    => intermediates(list') + 1 = intermediates(list)
               /\ (last'.action = "untag" /\ n0 = 1 /\ n1 = 0)
                    => intermediates(list') = intermediates(list) + 1
               /\ ((n0 = 0) <=> (n1 = 0))
                    => intermediates(list') = intermediates(list)]_vars

\* A "tag" event has given an untagged image its first tag while another
\* image of the mirror is still untagged.
TagCrossingWitness ==
    /\ last.op = "event"
    /\ last.action = "tag"
    /\ Has(list, "image", last.id)
    /\ Cardinality(Get(list, "image", last.id).tags) = 1
    /\ signals = <<Notify("intermediates")>>
    /\ intermediates(list) = 1

\* ---------------------------------------------------------------- C23
\* C23: on the container and the pod mirror an event whose action
\* refreshes (any but "remove", and for containers "health_status")
\* issues exactly one list request: filtered to the event's id when the
\* mirror holds that id, unfiltered when it does not.  The mirror's
\* contents are not touched by the event itself.
EventRefreshScopedWhenHeld ==
    [][(last'.op = "event" /\ last'.action = "refresh" /\ last'.m # "image")
         => LET m == last'.m
                f == IF Has(list, m, last'.id) THEN last'.id ELSE None
            IN /\ pending' = [pending EXCEPT ![m][f] = @ + 1]
               /\ listing'[m]
               /\ list' = list]_vars

\* An event has issued a refresh scoped to a container the mirror holds.
EventRefreshScopedWitness ==
    /\ last.op = "event"
    /\ last.action = "refresh"
    /\ last.m = "container"
    /\ Has(list, "container", last.id)
    /\ pending["container"][last.id] > 0
    /\ pending["container"][None] = 0

\* ---------------------------------------------------------------- C24
\* C24: on each of the three mirrors handle_event with an action value
\* that is not recognized changes nothing of the mirror (contents,
\* listing, initialized), issues no list request and calls no callback.
UnknownActionIgnored ==
    [][(last'.op = "event" /\ last'.action = "unknown")
         => /\ list' = list
            /\ listing' = listing
            /\ initialized' = initialized
            /\ pending' = pending
            /\ signals' = <<>>]_vars

\* ---------------------------------------------------------------- C25
\* C25: a "health_status" event of a container the mirror holds calls
\* inspect on that container and nothing else: no list request is
\* issued, listing and initialized are what they were, and the mirror
\* holds the same entities in the same order; for a container the
\* mirror does not hold the event does nothing.
HealthStatusOnlyInspects ==
    [][(last'.op = "event" /\ last'.action = "health_status")
         => /\ pending' = pending
            /\ listing' = listing
            /\ initialized' = initialized
            /\ list' = list
            /\ signals' = IF Has(list, "container", last'.id)
                          THEN <<Sig("inspect", "container", last'.id, 0)>>
                          ELSE <<>>]_vars

\* A "health_status" event has re-inspected a container of a mirror that
\* holds two, while no list request was in flight.
HealthStatusWitness ==
    /\ last.op = "event"
    /\ last.action = "health_status"
    /\ signals = <<Sig("inspect", "container", last.id, 0)>>
    /\ Len(list["container"]) = 2
    /\ InFlight("container") = 0
    /\ ~listing["container"]

\* ---------------------------------------------------------------- C26
\* The entity e with its tags taken out of the comparison.
Untagged(e) == [e EXCEPT !.tags = {}]

\* C26: on the image mirror a "tag" or "untag" event issues no list
\* request and leaves listing as it was; of the mirror it changes at
\* most the tag set of the image the event addresses (every other image,
\* and every other field of that image, is what it was).  A "build" or
\* "pull" event issues exactly one unfiltered list request and changes
\* no image.
TagEventsAreLocal ==
    [][(last'.op = "event" /\ last'.m = "image")
         => /\ last'.action \in {"tag", "untag"}
                 => /\ pending' = pending
                    /\ listing' = listing
                    /\ initialized' = initialized
                    /\ Len(list'["image"]) = Len(list["image"])
                    /\ \A i \in DOMAIN list["image"] :
                          IF list["image"][i].id = last'.id
                          THEN Untagged(list'["image"][i])
                                 = Untagged(list["image"][i])
                          ELSE list'["image"][i] = list["image"][i]
            /\ last'.action = "refresh"
                 => /\ pending' = [pending EXCEPT !["image"][None] = @ + 1]
                    /\ listing'["image"]
                    /\ list' = list]_vars

\* An "untag" event has taken the last tag of an image while the other
\* image of the mirror keeps its tag and no list request is in flight.
TagEventsWitness ==
    /\ last.op = "event"
    /\ last.action = "untag"
    /\ Has(list, "image", last.id)
    /\ Get(list, "image", last.id).tags = {}
    /\ signals = <<Notify("intermediates")>>
    /\ intermediates(list) = 1
    /\ Len(list["image"]) = 2
    /\ InFlight("image") = 0
    /\ ~listing["image"]

\* ----------------------------------------------------------------- C27
\* C27: a step that removes a container from the container mirror (a
\* remove event or the reconciliation of a full listing) leaves it in the
\* container list of no image of the image mirror and of no pod of the
\* pod mirror.
RemovedContainerUnlinked ==
    [][\A C \in ContainerIds :
          (Has(list, "container", C) /\ ~Has(list', "container", C))
          => \A m \in {"image", "pod"} : \A i \in DOMAIN list'[m] :
                C \notin list'[m][i].containers]_vars

\* A full container listing without c1 has just evicted c1 while its image
\* i1 and its pod p1 are held: i1 keeps c2 only and p1 lists no container.
RemovedContainerWitness ==
    /\ last.op = "refresh_ok"
    /\ last.m = "container"
    /\ SigPositions(signals, "container-removed", "container", "c1") # {}
    /\ Has(list, "image", "i1")
    /\ Has(list, "pod", "p1")
    /\ Get(list, "image", "i1").containers = {"c2"}
    /\ Get(list, "pod", "p1").containers = {}

\* ----------------------------------------------------------------- C28
\* C28: every tick of the timer issues one unfiltered refresh on each of
\* the three mirrors and nothing else; the failure of a refresh the timer
\* issued calls no per-domain error callback; no timer goes away while the
\* Client exists; and a started timer ticks again and again, whether or
\* not an event loop is still running, until the Client is destroyed
\* (unless the requests in flight keep reaching MaxInflight, where the
\* model issues no further request).
TimerTicksWhileClientLives ==
    /\ [][/\ last'.op = "tick"
              => /\ pending' = [m \in Kinds |->
                                 [pending[m] EXCEPT ![None] = @ + 1]]
                 /\ signals' = RefreshCalls
                 /\ svc'.loud = svc.loud
                 /\ list' = list
          /\ (last'.op = "refresh_err" /\ svc'.loud = svc.loud)
              => \A i \in DOMAIN signals' : signals'[i].sig # "err_op"
                                             \/ signals'[i].m # None
          /\ svc'.alive => svc'.timers >= svc.timers]_vars
    /\ \/ []<><<TimerTick>>_vars
       \/ <>[](~svc.alive \/ svc.timers = 0)
       \/ []<>(\E m \in Kinds : InFlight(m) >= MaxInflight)

\* The timer has just ticked although every event loop of the Client has
\* stopped.
TimerTicksWitness ==
    /\ last.op = "tick"
    /\ svc.alive
    /\ Len(svc.loops) > 0
    /\ \A k \in DOMAIN svc.loops : svc.loops[k] = "stopped"
    /\ \A m \in Kinds : pending[m][None] > 0

\* ----------------------------------------------------------------- C29
\* C29: once the Client and its mirrors are destroyed, every delivery (the
\* completion of a ping or of a refresh, an item of the event stream, a
\* tick of the timer) is dropped: the mirrors, their listing and
\* initialized flags stay as they were and nothing is called; the event
\* loop that received the item is stopped and the timer that ticked is
\* gone.
DroppedAfterDestruction ==
    [][~svc.alive
         => /\ last'.op = "dropped"
            /\ list' = list
            /\ listing' = listing
            /\ initialized' = initialized
            /\ signals' = <<>>
            /\ svc'.loops # svc.loops
                 => /\ last'.action = "event"
                    /\ svc.loops[svc'.by] = "running"
            /\ last'.action = "event"
                 => /\ svc'.loops[svc'.by] = "stopped"
                    /\ \A k \in DOMAIN svc.loops :
                          k # svc'.by => svc'.loops[k] = svc.loops[k]
            /\ last'.action = "tick" => svc'.timers = svc.timers - 1
            /\ last'.action # "tick" => svc'.timers = svc.timers]_vars

\* The event stream has just delivered an item to a Client that is gone,
\* while a list request of every mirror is still in flight: the loop is
\* stopped and the mirrors are still listing.
DroppedAfterDestructionWitness ==
    /\ ~svc.alive
    /\ last.op = "dropped"
    /\ last.action = "event"
    /\ svc.loops[svc.by] = "stopped"
    /\ \A m \in Kinds : pending[m][None] > 0 /\ listing[m]

\* ----------------------------------------------------------------- C30
\* C30: whatever listing R completes a refresh of the container mirror,
\* full or scoped, only ids that R carries in a summary not flagged infra
\* are inserted or updated, and every other held container stays the
\* object it was.  A full refresh evicts nothing that it would not evict
\* with the infra summaries taken out of R, and when R flags no held
\* container as infra (a container's infra flag never changes) the mirror
\* and the notifications are those of R without its infra summaries.
InfraExcluded ==
    "container" \in focus =>
    \A f \in Filters("container") : \A R \in ResponsesTo("container", f) :
        LET W     == refresh_ok(Now, "container", f, R)
            plain == refresh_ok(Now, "container", f, without_infra(R))
            ok    == RespIds(without_infra(R))
            held  == KeysOf(list["container"])
        IN /\ KeysOf(W.list["container"]) \ held \subseteq ok
           /\ SigIds(W.sigs, "items-added", "container") \subseteq ok
           /\ SigIds(W.sigs, "update", "container") \subseteq ok
           /\ \A i \in DOMAIN list["container"] :
                 LET id == list["container"][i].id
                 IN (id \notin ok /\ Has(W.list, "container", id))
                      => Get(W.list, "container", id) = list["container"][i]
           /\ SigIds(W.sigs, "items-removed", "container")
                 \subseteq SigIds(plain.sigs, "items-removed", "container")
           /\ (\A i \in DOMAIN R : R[i].is_infra => R[i].id \notin held)
                 => W = plain

\* A full refresh has just left the mirror holding c1 alone, and a listing
\* of c1 together with an infra summary of c2 leaves it exactly so.
InfraExcludedWitness ==
    /\ "container" \in focus
    /\ last.op = "refresh_ok"
    /\ last.id = None
    /\ KeysOf(list["container"]) = {"c1"}
    /\ \E R \in Responses("container") :
          /\ \E i \in DOMAIN R : R[i].id = "c2" /\ R[i].is_infra
          /\ \E i \in DOMAIN R : R[i].id = "c1" /\ ~R[i].is_infra
          /\ KeysOf(FullRefresh("container", R).list["container"]) = {"c1"}

\* ----------------------------------------------------------------- C31
\* The ids a listing reports as entities of mirror m.
IdsOf(m, R) ==
    IF m = "container" THEN RespIds(without_infra(R)) ELSE RespIds(R)

\* The ids a listing flags as infra containers.
InfraIdsOf(R) == {R[i].id : i \in {j \in DOMAIN R : R[j].is_infra}}

\* C31: while unfiltered refreshes of a mirror overlap, whichever listing
\* the one that completed first has applied (the mirror as that completion
\* left it, another request still in flight) and whichever listing R2 the
\* next one gets, the mirror holds after that completion exactly the ids
\* of R2, the listing applied last (a container keeps its infra flag).
LastCompletionWins ==
    \A m \in focus :
       (/\ last.op = "refresh_ok"
        /\ last.m = m
        /\ last.id = None
        /\ pending[m][None] >= 1)
       => \A R2 \in Responses(m) :
             (InfraIdsOf(R2) \cap (KeysOf(list[m]) \cup IdsOf(m, R2)) = {})
             => KeysOf(FullRefresh(m, R2).list[m]) = IdsOf(m, R2)

\* The first of two overlapping unfiltered refreshes has just completed
\* and left an entity in the mirror; the other is still in flight.
LastCompletionWinsWitness ==
    /\ last.op = "refresh_ok"
    /\ last.id = None
    /\ pending[last.m][None] >= 1
    /\ list[last.m] # <<>>

\* ----------------------------------------------------------------- C32
\* The listings the gateway returns of a remote collection whose entities
\* of mirror m are S (for containers: the containers that are not infra).
ListingsOf(m, S) ==
    {R \in Responses(m) : IdsOf(m, R) = S /\ InfraIdsOf(R) \cap S = {}}

\* A step of the time after the remote collection has settled on S: the
\* periodic refresh of mirror m is issued, or one completes with a listing
\* of S.
SettledStep(m, S) ==
    \/ last'.op = "refresh" /\ last'.m = m /\ list' = list
    \/ /\ last'.op = "refresh_ok"
       /\ last'.m = m
       /\ last'.id = None
       /\ \E R \in ListingsOf(m, S) :
             /\ InfraIdsOf(R) \cap KeysOf(list[m]) = {}
             /\ list' = FullRefresh(m, R).list

\* An unfiltered refresh of mirror m completes with Ok.
FullCompletion(m) ==
    last'.op = "refresh_ok" /\ last'.m = m /\ last'.id = None

\* C32: if from some point on every step of mirror m is a periodic
\* unfiltered refresh or its successful completion with a listing of the
\* settled remote collection S, and such completions keep coming, then
\* from some point on the mirror holds exactly the ids of S, whatever
\* events, failures and stale listings came before.
EventuallyConsistent ==
    \A m \in Kinds : \A S \in SUBSET Ids(m) :
       (<>[][SettledStep(m, S)]_vars /\ []<><<FullCompletion(m)>>_vars)
          => <>[](KeysOf(list[m]) = S)

\* The last unfiltered refresh in flight has just completed and corrected
\* a drift: an entity the mirror held was removed and one it did not hold
\* was added.
EventuallyConsistentWitness ==
    /\ last.op = "refresh_ok"
    /\ last.id = None
    /\ InFlight(last.m) = 0
    /\ ~listing[last.m]
    /\ SigIds(signals, "items-removed", last.m) # {}
    /\ SigIds(signals, "items-added", last.m) # {}

DeletedWhileReachable ==
    [][(/\ last'.op = "event"
        /\ last'.action = "remove"
        /\ Has(list, last'.m, last'.id)
        /\ SigPositions(signals', "deleted", last'.m, last'.id) # {})
         => Has(deleted_at(Now, last'.m, last'.id).list, last'.m, last'.id)]_vars

\* ----------------------------------------------------------------- C35
\* C35: the completion of a refresh scoped to one id removes nothing:
\* every held entity stays where it was, as the same object, no removed
\* and no deleted notification fires, and the entities of the other ids
\* are exactly as before.
ScopedRefreshRemovesNothing ==
    [][(last'.op = "refresh_ok" /\ last'.id # None)
         => /\ Len(list'[last'.m]) >= Len(list[last'.m])
            /\ \A i \in DOMAIN list[last'.m] :
                  /\ Ref(list'[last'.m][i]) = Ref(list[last'.m][i])
                  /\ list[last'.m][i].id # last'.id
                       => list'[last'.m][i] = list[last'.m][i]
            /\ \A i \in DOMAIN signals' :
                  signals'[i].sig \notin
                     {"items-removed", "deleted", "container-removed"}]_vars

\* A refresh scoped to a held id has just completed with an empty listing
\* on a mirror of two entities: both are still held and nothing fired.
ScopedRefreshWitness ==
    /\ last.op = "refresh_ok"
    /\ last.id # None
    /\ Has(list, last.m, last.id)
    /\ Len(list[last.m]) = 2
    /\ signals = <<>>

\* ----------------------------------------------------------------- C36
\* C36: when a remove event has just evicted an entity, every request in
\* flight was issued before the event was handled; the completion of such
\* a request does not bring the entity back.
StaleListingCannotResurrect ==
    [][(/\ last.op = "event"
        /\ last.action = "remove"
        /\ SigPositions(signals, "items-removed", last.m, last.id) # {}
        /\ last'.op = "refresh_ok"
        /\ last'.m = last.m)
         => ~Has(list', last.m, last.id)]_vars

\* ----------------------------------------------------------------- C37
\* C37: the manager has one client cell, empty or holding one Client, and
\* after every operation and every completion the connection the active
\* Client was made from is in the collection.
ActiveClientIsKnown ==
    /\ cm.client \in {NoUuid} \cup Uuids
    /\ cm.client # NoUuid => HasConnection(cm.connections, cm.client)

\* The connection of the active Client has just been removed while another
\* one stays in the collection: the client is unset.
ActiveClientWitness ==
    /\ last.op = "remove_connection"
    /\ \E i \in DOMAIN signals : signals[i].sig = "notify-client"
    /\ cm.client = NoUuid
    /\ Len(cm.connections) > 0

\* ----------------------------------------------------------------- C38
\* C38: whenever no write is in flight, the store holds exactly the
\* connections of the collection, in its order.
StoreIsCollectionWhenWritten ==
    cm.writes = <<>> => (cm.disk = "ok" /\ cm.store = cm.connections)

\* ----------------------------------------------------------------- C39
\* C39: whenever the collection is not empty, the setting
\* "last-used-connection" names one of its connections.
LastUsedIsKnown ==
    Len(cm.connections) > 0 => HasConnection(cm.connections, cm.last_used)

\* ----------------------------------------------------------------- C40
\* The image mirror after a "tag" event with attribute name `tagged` and
\* then an "untag" event with attribute name `untagged`, both for id.
TagThenUntag(id, tagged, untagged) ==
    LET W1 == handle_tag(Now, id, tagged)
    IN handle_untag(World(W1.list, W1.list, <<>>), id, untagged).list

\* C40: for a held image whose tag set does not have the name,
\* a "tag" event and then an "untag" event with that same name leave the
\* tag set and the count of intermediates as they were.
TagUntagSameName ==
    "image" \in focus =>
    \A id \in KeysOf(list["image"]) : \A name \in TagNames :
       name \notin Get(list, "image", id).tags
       => LET l == TagThenUntag(id, name, name)
          IN /\ Get(l, "image", id).tags = Get(list, "image", id).tags
             /\ intermediates(l) = intermediates(list)

====
